---------------------------- MODULE Spec2Model ----------------------------
(***************************************************************************)
(* gasp: incremental JSON extraction from tagged LLM output.               *)
(*                                                                         *)
(*   bytes -> TagFinder -> (Open|Bytes|Close) -> Scanner -> Events         *)
(*         -> Builder -> snapshot                                          *)
(*                                                                         *)
(* Text is a sequence of one-character strings, one per byte: a character  *)
(* of two bytes is a lead byte followed by a continuation byte.  The       *)
(* TagFinder, the Builder, the Parser and the StreamParser follow          *)
(* src/src/tag_finder.rs and src/src/json_parser.rs.  The Scanner          *)
(* (crate::json_sax_scanner) is not part of the sources at hand and        *)
(* follows section 4.2 of the specification.                               *)
(***************************************************************************)
EXTENDS Integers, Sequences, FiniteSets, TLC

VARIABLES
    tagger,     \* StreamParser.tagger : TagFinder {buf, inside, wanted, ignored, inside_ignored, ignored_depth}
    capturing,  \* StreamParser.capturing
    inner,      \* StreamParser.inner : Parser {scanner, builder, streaming}
    done,       \* StreamParser.done
    spWanted,   \* StreamParser.wanted (lowercase)
    spIgnored,  \* StreamParser.ignored (lowercase)
    out,        \* the TagEvents the last push handed to its emit callback
    ctx,        \* for each event of out: the router flags when it was emitted
    chunkIn,    \* the chunk given to the last push / step
    before,     \* the router as it was when the last push / step began
    ret,        \* what the last step returned
    sample,     \* what the caller streams: a JSON value, its tags and the text around
    input,      \* the text of the sample
    pos,        \* how many characters of input have been fed
    call,       \* the last call made on the parser or its builder
    event,      \* the scanner event of the last feed_event
    snapshot    \* the Option<Snapshot> the last feed_event returned

vars == <<tagger, capturing, inner, done, spWanted, spIgnored,
          out, ctx, chunkIn, before, ret, sample, input, pos, call, event, snapshot>>

(***************************************************************************)
(* Text helpers                                                            *)
(***************************************************************************)

\* str::find(c): index of the first c in s, 0 when there is none
Find(s, c) ==
    IF \E k \in 1..Len(s) : s[k] = c
    THEN CHOOSE k \in 1..Len(s) : s[k] = c /\ \A j \in 1..(k - 1) : s[j] # c
    ELSE 0

Contains(s, c) == \E k \in 1..Len(s) : s[k] = c

\* s[from..] (1-based, inclusive)
From(s, from) == SubSeq(s, from, Len(s))

\* a UTF-8 continuation byte (0b10xxxxxx), and a character of two bytes
ContinuationByte == "~"
WideChar == <<"^", ContinuationByte>>

\* str::is_char_boundary(at), at counting the bytes before the boundary
IsCharBoundary(s, at) ==
    at = 0 \/ at = Len(s) \/ (at < Len(s) /\ s[at + 1] # ContinuationByte)

StartsWith(s, p) == Len(s) >= Len(p) /\ SubSeq(s, 1, Len(p)) = p

EndsWith(s, p) == Len(s) >= Len(p) /\ SubSeq(s, Len(s) - Len(p) + 1, Len(s)) = p

RECURSIVE Flatten(_)
Flatten(ss) == IF ss = <<>> THEN <<>> ELSE Head(ss) \o Flatten(Tail(ss))

IsWhitespace(c) == c \in {" ", "\n", "\t", "\r"}

IsDigit(c) == c \in {"0", "1", "2", "3", "4", "5", "6", "7", "8", "9"}

DigitVal(c) ==
    CASE c = "0" -> 0 [] c = "1" -> 1 [] c = "2" -> 2 [] c = "3" -> 3
      [] c = "4" -> 4 [] c = "5" -> 5 [] c = "6" -> 6 [] c = "7" -> 7
      [] c = "8" -> 8 [] c = "9" -> 9

\* char::to_lowercase over the letters the model uses
ToLowerChar(c) ==
    CASE c = "T" -> "t" [] c = "U" -> "u" [] c = "I" -> "i" [] c = "J" -> "j"
      [] c = "B" -> "b" [] c = "X" -> "x"
      [] OTHER -> c

\* str::to_lowercase
ToLowercase(s) == [k \in DOMAIN s |-> ToLowerChar(s[k])]

RECURSIVE TrimStart(_)
TrimStart(s) ==
    IF s # <<>> /\ IsWhitespace(Head(s)) THEN TrimStart(Tail(s)) ELSE s

RECURSIVE TrimEnd(_)
TrimEnd(s) ==
    IF s # <<>> /\ IsWhitespace(s[Len(s)]) THEN TrimEnd(SubSeq(s, 1, Len(s) - 1)) ELSE s

\* str::trim
Trim(s) == TrimEnd(TrimStart(s))

RECURSIVE TakeWord(_)
TakeWord(s) ==
    IF s = <<>> \/ IsWhitespace(Head(s)) THEN <<>> ELSE <<Head(s)>> \o TakeWord(Tail(s))

\* split_whitespace().next().unwrap_or("")
FirstToken(s) == TakeWord(TrimStart(s))

\* split_whitespace() : the words of s
RECURSIVE Words(_)
Words(s) ==
    LET t == TrimStart(s) IN
    IF t = <<>> THEN <<>>
    ELSE LET w == TakeWord(t) IN <<w>> \o Words(From(t, Len(w) + 1))

RECURSIVE JoinSpace(_)
JoinSpace(ws) ==
    IF ws = <<>> THEN <<>>
    ELSE IF Len(ws) = 1 THEN ws[1]
    ELSE ws[1] \o <<" ">> \o JoinSpace(Tail(ws))

\* collapse runs of whitespace to single spaces
squash_ws(s) == JoinSpace(Words(s))

(***************************************************************************)
(* JsonValue, JsonError                                                    *)
(***************************************************************************)

JNull == [t |-> "Null"]
JBoolean(b) == [t |-> "Boolean", b |-> b]
\* Number::Integer(n); a number is mant * 10^exp
JInteger(n) == [t |-> "Number", kind |-> "Integer", mant |-> n, exp |-> 0]
\* Number::Float(mant * 10^exp), mant without trailing zeros
JFloat(mant, exp) == [t |-> "Number", kind |-> "Float", mant |-> mant, exp |-> exp]
JString(s) == [t |-> "String", s |-> s]
JArray(v) == [t |-> "Array", v |-> v]
\* an Object holds a function from keys (texts) to values
JObject(m) == [t |-> "Object", m |-> m]

EmptyMap == [k \in {} |-> JNull]

\* a map in which the first write to a key stays
MapInsertOnce(m, key, val) ==
    [k \in (DOMAIN m) \cup {key} |-> IF k \in DOMAIN m THEN m[k] ELSE val]

\* HashMap::insert : a later write replaces the earlier one
MapInsert(m, key, val) ==
    [k \in (DOMAIN m) \cup {key} |-> IF k = key THEN val ELSE m[k]]

IsContainerValue(val) == val.t \in {"Object", "Array"}

\* Result<JsonValue, JsonError>
Ok(v) == [err |-> "none", val |-> v]
Err(e) == [err |-> e, val |-> JNull]

(***************************************************************************)
(* Scalar finalisers                                                       *)
(***************************************************************************)

parse_ident(buf) ==
    IF buf \in {<<"t">>, <<"t", "r">>, <<"t", "r", "u">>, <<"t", "r", "u", "e">>}
        THEN [some |-> TRUE, val |-> JBoolean(TRUE)]
    ELSE IF buf \in {<<"f">>, <<"f", "a">>, <<"f", "a", "l">>, <<"f", "a", "l", "s">>,
                     <<"f", "a", "l", "s", "e">>}
        THEN [some |-> TRUE, val |-> JBoolean(FALSE)]
    ELSE IF buf \in {<<"n">>, <<"n", "u">>, <<"n", "u", "l">>, <<"n", "u", "l", "l">>}
        THEN [some |-> TRUE, val |-> JNull]
    ELSE [some |-> FALSE, val |-> JNull]

AllDigits(s) == \A k \in 1..Len(s) : IsDigit(s[k])

RECURSIVE DigitsToInt(_)
DigitsToInt(s) ==
    IF s = <<>> THEN 0
    ELSE 10 * DigitsToInt(SubSeq(s, 1, Len(s) - 1)) + DigitVal(s[Len(s)])

HasSign(s) == s # <<>> /\ s[1] \in {"+", "-"}
Unsigned(s) == IF HasSign(s) THEN Tail(s) ELSE s
SignOf(s) == IF s # <<>> /\ s[1] = "-" THEN -1 ELSE 1

\* str::parse::<i64> : an optional sign and at least one digit
\* (the model's numerals stay far below the 64-bit range)
ParseDigits(sign, d) ==
    IF d # <<>> /\ AllDigits(d)
    THEN [ok |-> TRUE, n |-> sign * DigitsToInt(d)]
    ELSE [ok |-> FALSE, n |-> 0]

ParseI64(s) == ParseDigits(SignOf(s), Unsigned(s))

\* the first of two positions, 0 standing for none
FirstOf(a, b) == IF a = 0 THEN b ELSE IF b = 0 THEN a ELSE IF a < b THEN a ELSE b

RECURSIVE Normalise(_, _)
Normalise(mant, exp) ==
    IF mant = 0 THEN [mant |-> 0, exp |-> 0]
    ELSE IF mant % 10 = 0 THEN Normalise(mant \div 10, exp + 1)
    ELSE [mant |-> mant, exp |-> exp]

FindExp(s) == FirstOf(Find(s, "e"), Find(s, "E"))

\* the value of a mantissa (integer and fraction digits) and an exponent
FloatOf(sign, ip, fp, e) ==
    LET n == Normalise(sign * DigitsToInt(ip \o fp), e - Len(fp)) IN
    [ok |-> TRUE, mant |-> n.mant, exp |-> n.exp]

ExponentOf(ep) == IF ep = <<>> THEN 0 ELSE SignOf(ep) * DigitsToInt(Unsigned(ep))

MantissaOk(ip, fp) == AllDigits(ip) /\ AllDigits(fp) /\ Len(ip) + Len(fp) >= 1

ExponentOk(has_exp, epd) == ~has_exp \/ (epd # <<>> /\ AllDigits(epd))

ParseParts(sign, ip, fp, has_exp, ep) ==
    IF MantissaOk(ip, fp) /\ ExponentOk(has_exp, Unsigned(ep))
    THEN FloatOf(sign, ip, fp, IF has_exp THEN ExponentOf(ep) ELSE 0)
    ELSE [ok |-> FALSE, mant |-> 0, exp |-> 0]

ParseMantissa(sign, mp, dot, has_exp, ep) ==
    ParseParts(sign, IF dot = 0 THEN mp ELSE SubSeq(mp, 1, dot - 1),
               IF dot = 0 THEN <<>> ELSE From(mp, dot + 1), has_exp, ep)

SplitMantissa(sign, mp, has_exp, ep) == ParseMantissa(sign, mp, Find(mp, "."), has_exp, ep)

SplitExponent(sign, body, ex) ==
    SplitMantissa(sign, IF ex = 0 THEN body ELSE SubSeq(body, 1, ex - 1), ex # 0,
                  IF ex = 0 THEN <<>> ELSE From(body, ex + 1))

\* str::parse::<f64> : [sign] digits [. digits] [(e|E) [sign] digits], with at
\* least one digit in the mantissa
ParseF64(s) == SplitExponent(SignOf(s), Unsigned(s), FindExp(Unsigned(s)))

NumberJunk == {"}", ",", "]", " ", "\n", "\r", "\t", "-", "+", ".", "e", "E"}

RECURSIVE StripNumberTail(_)
StripNumberTail(s) ==
    IF s # <<>> /\ s[Len(s)] \in NumberJunk
    THEN StripNumberTail(SubSeq(s, 1, Len(s) - 1))
    ELSE s

\* format!("0{raw}") for a raw text starting with '.', "-." or "+."
LeadingZero(raw) ==
    IF StartsWith(raw, <<".">>) \/ StartsWith(raw, <<"-", ".">>) \/ StartsWith(raw, <<"+", ".">>)
    THEN <<"0">> \o raw
    ELSE raw

FloatResult(f) == IF f.ok THEN Ok(JFloat(f.mant, f.exp)) ELSE Err("InvalidNumber")

IntegerResult(i) == IF i.ok THEN Ok(JInteger(i.n)) ELSE Err("InvalidNumber")

ParseCooked(cooked) ==
    IF Contains(cooked, ".") \/ Contains(cooked, "e") \/ Contains(cooked, "E")
    THEN FloatResult(ParseF64(cooked))
    ELSE IntegerResult(ParseI64(cooked))

parse_number(raw) == ParseCooked(StripNumberTail(LeadingZero(raw)))

IsHex(c) == IsDigit(c) \/ ToLowerChar(c) \in {"a", "b", "c", "d", "e", "f"}
            \/ c \in {"A", "C", "D", "E", "F"}

\* char::from_u32 of a \uXXXX escape: None for a surrogate (D800..DFFF)
IsSurrogate(hex) == hex[1] \in {"d", "D"} /\ ~(hex[2] \in {"0", "1", "2", "3", "4", "5", "6", "7"})

\* the character a \uXXXX escape denotes, as one text unit
CodeUnit(hex) ==
    IF hex = <<"0", "0", "6", "1">> THEN "a"
    ELSE IF hex = <<"0", "0", "2", "c">> \/ hex = <<"0", "0", "2", "C">> THEN ","
    ELSE "U+" \o hex[1] \o hex[2] \o hex[3] \o hex[4]

SimpleEscape(c) ==
    CASE c = "\"" -> "\"" [] c = "\\" -> "\\" [] c = "/" -> "/"
      [] c = "b" -> "BS" [] c = "f" -> "FF"
      [] c = "n" -> "\n" [] c = "r" -> "\r" [] c = "t" -> "\t"

\* unescape: [err, s]
RECURSIVE unescape(_)
unescape(src) ==
    IF src = <<>> THEN [err |-> "none", s |-> <<>>]
    ELSE IF Head(src) # "\\" THEN
        LET r == unescape(Tail(src)) IN
        IF r.err # "none" THEN r ELSE [err |-> "none", s |-> <<Head(src)>> \o r.s]
    ELSE IF Len(src) < 2 THEN [err |-> "InvalidEscape", s |-> <<>>]
    ELSE IF src[2] \in {"\"", "\\", "/", "b", "f", "n", "r", "t"} THEN
        LET r == unescape(From(src, 3)) IN
        IF r.err # "none" THEN r ELSE [err |-> "none", s |-> <<SimpleEscape(src[2])>> \o r.s]
    ELSE IF src[2] = "u" THEN
        LET hex == SubSeq(src, 3, IF Len(src) < 6 THEN Len(src) ELSE 6) IN
        IF Len(hex) # 4 \/ ~(\A k \in 1..4 : IsHex(hex[k])) \/ IsSurrogate(hex)
        THEN [err |-> "InvalidEscape", s |-> <<>>]
        ELSE LET r == unescape(From(src, 7)) IN
             IF r.err # "none" THEN r ELSE [err |-> "none", s |-> <<CodeUnit(hex)>> \o r.s]
    ELSE [err |-> "InvalidEscape", s |-> <<>>]

(***************************************************************************)
(* Scanner (json_sax_scanner): a lenient SAX lexer.  push appends text,    *)
(* next_step yields Event(e), NeedMore or Error(kind).  A scalar cut by    *)
(* the end of the buffer is handed out as a Chunk and completed by an End. *)
(***************************************************************************)

Event(e, s) == [e |-> e, s |-> s]

ScannerNew == [buf |-> <<>>, state |-> "Outer", quote |-> "\"", tok |-> <<>>, hex |-> 0]

ScannerPush(sc, part) == [sc EXCEPT !.buf = @ \o part]

IsIdentStart(c) ==
    c \in {"a", "b", "c", "d", "e", "f", "l", "n", "r", "s", "t", "u", "x", "y", "T", "X", "_"}

IsIdentChar(c) == IsIdentStart(c) \/ IsDigit(c)

IsNumberStart(c) == IsDigit(c) \/ c \in {"-", "+", "."}

IsNumberChar(c) == IsDigit(c) \/ c \in {"-", "+", ".", "e", "E"}

ChunkEvent(state) ==
    CASE state = "InNumber" -> "NumberChunk"
      [] state = "InIdent" -> "IdentChunk"
      [] OTHER -> "StrChunk"

ScanEvent(sc, ev) == [kind |-> "Event", ev |-> ev, err |-> "none", sc |-> sc]
ScanNeedMore(sc) == [kind |-> "NeedMore", ev |-> Event("none", <<>>), err |-> "none", sc |-> sc]
ScanError(sc, e) == [kind |-> "Error", ev |-> Event("none", <<>>), err |-> e, sc |-> sc]

RECURSIVE next_step(_)
next_step(sc) ==
    IF sc.buf = <<>> THEN
        \* suspension point: hand out what a cut scalar has gathered so far
        IF sc.state # "Outer" /\ sc.tok # <<>>
        THEN ScanEvent([sc EXCEPT !.tok = <<>>], Event(ChunkEvent(sc.state), sc.tok))
        ELSE ScanNeedMore(sc)
    ELSE
        LET c    == Head(sc.buf)
            rest == [sc EXCEPT !.buf = Tail(@)]
        IN
        CASE sc.state = "Outer" ->
                IF IsWhitespace(c) \/ c \in {",", ":"} THEN next_step(rest)
                ELSE IF c = "{" THEN ScanEvent(rest, Event("StartObj", <<>>))
                ELSE IF c = "}" THEN ScanEvent(rest, Event("EndObj", <<>>))
                ELSE IF c = "[" THEN ScanEvent(rest, Event("StartArr", <<>>))
                ELSE IF c = "]" THEN ScanEvent(rest, Event("EndArr", <<>>))
                ELSE IF c \in {"\"", "'"}
                    THEN next_step([rest EXCEPT !.state = "InString", !.quote = c, !.tok = <<>>])
                ELSE IF IsNumberStart(c)
                    THEN next_step([rest EXCEPT !.state = "InNumber", !.tok = <<c>>])
                ELSE IF IsIdentStart(c)
                    THEN next_step([rest EXCEPT !.state = "InIdent", !.tok = <<c>>])
                ELSE ScanError(rest, "UnexpectedChar")
          [] sc.state = "InString" ->
                IF c = sc.quote
                    THEN ScanEvent([rest EXCEPT !.state = "Outer", !.tok = <<>>],
                                   Event("StrEnd", sc.tok))
                ELSE IF c = "\\"
                    THEN next_step([rest EXCEPT !.state = "InEscape", !.tok = Append(@, c)])
                ELSE next_step([rest EXCEPT !.tok = Append(@, c)])
          [] sc.state = "InEscape" ->
                IF c = "u"
                    THEN next_step([rest EXCEPT !.state = "InUnicodeEscape", !.hex = 0,
                                                !.tok = Append(@, c)])
                ELSE IF c \in {"\"", "\\", "/", "b", "f", "n", "r", "t"}
                    THEN next_step([rest EXCEPT !.state = "InString", !.tok = Append(@, c)])
                ELSE ScanError(rest, "InvalidEscape")
          [] sc.state = "InUnicodeEscape" ->
                IF ~IsHex(c) THEN ScanError(rest, "InvalidEscape")
                ELSE next_step([rest EXCEPT !.tok = Append(@, c),
                                            !.hex = IF sc.hex = 3 THEN 0 ELSE sc.hex + 1,
                                            !.state = IF sc.hex = 3 THEN "InString"
                                                      ELSE "InUnicodeEscape"])
          [] sc.state = "InNumber" ->
                IF IsNumberChar(c) THEN next_step([rest EXCEPT !.tok = Append(@, c)])
                ELSE ScanEvent([sc EXCEPT !.state = "Outer", !.tok = <<>>],
                               Event("NumberEnd", sc.tok))
          [] sc.state = "InIdent" ->
                IF IsIdentChar(c) THEN next_step([rest EXCEPT !.tok = Append(@, c)])
                ELSE ScanEvent([sc EXCEPT !.state = "Outer", !.tok = <<>>],
                               Event("IdentEnd", sc.tok))

(***************************************************************************)
(* Builder                                                                 *)
(***************************************************************************)

None == [some |-> FALSE, s |-> <<>>]
Some(s) == [some |-> TRUE, s |-> s]

FObj(map, last_key) == [k |-> "Obj", map |-> map, last_key |-> last_key]
FArr(vec) == [k |-> "Arr", vec |-> vec]
FStr(buf) == [k |-> "Str", buf |-> buf]
FIdent(buf) == [k |-> "Ident", buf |-> buf]
FNum(buf) == [k |-> "Num", buf |-> buf]

IsScalarFrame(f) == f.k \in {"Str", "Ident", "Num"}

PathKey(s) == [key |-> TRUE, s |-> s, i |-> 0]
PathIndex(i) == [key |-> FALSE, s |-> <<>>, i |-> i]

BuilderNew(streaming) == [stack |-> <<>>, path |-> <<>>, streaming |-> streaming]

Top(stack) == stack[Len(stack)]
Pop(seq) == SubSeq(seq, 1, Len(seq) - 1)
TopIs(b, kind) == b.stack # <<>> /\ Top(b.stack).k = kind
SetTop(b, f) == [b EXCEPT !.stack = Append(Pop(@), f)]
PopPath(b) == IF b.path # <<>> THEN [b EXCEPT !.path = Pop(@)] ELSE b

\* Option<Snapshot>
NoSnapshot == [kind |-> "None", path |-> <<>>, value |-> JNull]
Partial(path, value) == [kind |-> "Partial", path |-> path, value |-> value]
Complete(value) == [kind |-> "Complete", path |-> <<>>, value |-> value]

\* Result<Option<Snapshot>, JsonError> together with the builder it leaves;
\* err = "panic" stands for an abort (unreachable!, expect)
Fed(b, snap) == [b |-> b, err |-> "none", snap |-> snap]
FedErr(b, e) == [b |-> b, err |-> e, snap |-> NoSnapshot]

push_path_for_scalar(b) ==
    IF b.stack = <<>> THEN b
    ELSE LET top == Top(b.stack) IN
         IF top.k = "Arr" THEN [b EXCEPT !.path = Append(@, PathIndex(Len(top.vec)))]
         ELSE IF top.k = "Obj" /\ top.last_key.some
              THEN [b EXCEPT !.path = Append(@, PathKey(top.last_key.s))]
         ELSE b

\* a scalar frame below the top of the stack: the projection hits unreachable!
ScalarMidStack(stack) == \E i \in 1..(Len(stack) - 1) : IsScalarFrame(stack[i])

RECURSIVE build_snapshot_from_stack_recursive(_, _)
build_snapshot_from_stack_recursive(stack, idx) ==
    LET f == stack[idx] IN
    IF idx = Len(stack) THEN
        IF IsScalarFrame(f) THEN JString(f.buf)
        ELSE IF f.k = "Obj" THEN
            JObject(IF f.last_key.some /\ ~(f.last_key.s \in DOMAIN f.map)
                    THEN MapInsert(f.map, f.last_key.s, JString(<<>>))
                    ELSE f.map)
        ELSE JArray(f.vec)
    ELSE
        IF f.k = "Obj" THEN
            LET child == build_snapshot_from_stack_recursive(stack, idx + 1) IN
            IF f.last_key.some THEN JObject(MapInsert(f.map, f.last_key.s, child))
            ELSE IF child.t = "String" /\ child.s # <<>>
                 THEN JObject(MapInsert(f.map, child.s, JString(<<>>)))
            ELSE JObject(f.map)
        ELSE IF f.k = "Arr" THEN
            JArray(Append(f.vec, build_snapshot_from_stack_recursive(stack, idx + 1)))
        ELSE JNull

\* Option<JsonValue>
current_root_json_value_snapshot(b) ==
    IF b.stack = <<>> THEN [some |-> FALSE, val |-> JNull]
    ELSE [some |-> TRUE, val |-> build_snapshot_from_stack_recursive(b.stack, 1)]

\* a container whose start takes the pending key from its parent
start_container_taking_key(b, frame) ==
    LET b1 == IF TopIs(b, "Arr")
                  THEN [b EXCEPT !.path = Append(@, PathIndex(Len(Top(b.stack).vec)))]
              ELSE IF TopIs(b, "Obj") /\ Top(b.stack).last_key.some
                  THEN SetTop([b EXCEPT !.path = Append(@, PathKey(Top(b.stack).last_key.s))],
                              FObj(Top(b.stack).map, None))
              ELSE b
    IN [b1 EXCEPT !.stack = Append(@, frame)]

start_container(b, frame) ==
    LET b1 == IF TopIs(b, "Arr")
                  THEN [b EXCEPT !.path = Append(@, PathIndex(Len(Top(b.stack).vec)))]
              ELSE IF TopIs(b, "Obj") /\ Top(b.stack).last_key.some
                  THEN [b EXCEPT !.path = Append(@, PathKey(Top(b.stack).last_key.s))]
              ELSE b
    IN [b1 EXCEPT !.stack = Append(@, frame)]

\* [b, err, val]
finish_container(b) ==
    IF b.stack = <<>> \/ IsScalarFrame(Top(b.stack))
    THEN [b |-> b, err |-> "panic", val |-> JNull]
    ELSE LET frame == Top(b.stack)
             val   == IF frame.k = "Obj" THEN JObject(frame.map) ELSE JArray(frame.vec)
         IN [b |-> PopPath([b EXCEPT !.stack = Pop(@)]), err |-> "none", val |-> val]

\* a new scalar frame for every chunk
ensure_frame_anew(b, kind) ==
    LET b1 == push_path_for_scalar(b) IN
    [b1 EXCEPT !.stack = Append(@, [k |-> kind, buf |-> <<>>])]

\* the three ensure_*_frame methods place the path item by the same rule
ensure_frame(b, kind) ==
    IF TopIs(b, kind) THEN b
    ELSE LET b1 == push_path_for_scalar(b) IN
         [b1 EXCEPT !.stack = Append(@, [k |-> kind, buf |-> <<>>])]

ensure_string_frame(b) == ensure_frame(b, "Str")
ensure_num_frame(b) == ensure_frame(b, "Num")
ensure_ident_frame(b) == ensure_frame(b, "Ident")

parent_wants_key(b) == TopIs(b, "Obj") /\ ~Top(b.stack).last_key.some

RECURSIVE TrimMatchesStart(_, _)
TrimMatchesStart(s, c) ==
    IF s # <<>> /\ Head(s) = c THEN TrimMatchesStart(Tail(s), c) ELSE s

RECURSIVE TrimMatchesEnd(_, _)
TrimMatchesEnd(s, c) ==
    IF s # <<>> /\ s[Len(s)] = c THEN TrimMatchesEnd(Pop(s), c) ELSE s

\* str::trim_matches(c)
TrimMatches(s, c) == TrimMatchesEnd(TrimMatchesStart(s, c), c)

RECURSIVE StripCommaSpace(_)
StripCommaSpace(s) ==
    IF s # <<>> /\ s[Len(s)] \in {",", " "} THEN StripCommaSpace(Pop(s)) ELSE s

\* a slice that is just a comma (optional whitespace) is swallowed
IsCommaOnly(cur) == TrimMatches(Trim(cur), ",") = <<>>

\* a merge that is made after a bare comma only
MergesAfterBareComma(vec) ==
    /\ vec # <<>>
    /\ vec[Len(vec)].t = "String"
    /\ EndsWith(vec[Len(vec)].s, <<",">>)

\* the previous element ends with ", " or ","
MergesIntoLast(vec) ==
    /\ vec # <<>>
    /\ vec[Len(vec)].t = "String"
    /\ (EndsWith(vec[Len(vec)].s, <<",", " ">>) \/ EndsWith(vec[Len(vec)].s, <<",">>))

\* val on its way into its parent: [b, err, kept]; kept is FALSE for a string
\* that was swallowed or glued onto the previous element
Placed(b) == [b |-> b, err |-> "none", kept |-> TRUE]
Swallowed(b) == [b |-> b, err |-> "none", kept |-> FALSE]
PlaceErr(b, e) == [b |-> b, err |-> e, kept |-> FALSE]

\* an object that takes a value without a key, under the empty key
PlaceInObjUnkeyed(b, parent, val) ==
    Placed(SetTop(b, FObj(MapInsert(parent.map, parent.last_key.s, val), None)))

\* Frame::Obj { map, last_key }
PlaceInObj(b, parent, val) ==
    IF ~parent.last_key.some THEN PlaceErr(b, "InvalidKey")
    ELSE Placed(SetTop(b, FObj(MapInsert(parent.map, parent.last_key.s, val), None)))

\* an array that loses its last element when a fragment is glued on
PlaceInArrDropping(b, vec, val) ==
    IF val.t = "String" /\ IsCommaOnly(val.s) THEN Swallowed(b)
    ELSE IF val.t = "String" /\ MergesIntoLast(vec) THEN Swallowed(SetTop(b, FArr(Pop(vec))))
    ELSE Placed(SetTop(b, FArr(Append(vec, val))))

\* Frame::Arr { vec }
PlaceInArr(b, vec, val) ==
    IF val.t = "String" /\ IsCommaOnly(val.s) THEN Swallowed(b)
    ELSE IF val.t = "String" /\ MergesIntoLast(vec) THEN
        Swallowed(SetTop(b, FArr(Append(Pop(vec),
                                        JString(StripCommaSpace(vec[Len(vec)].s) \o val.s)))))
    ELSE Placed(SetTop(b, FArr(Append(vec, val))))

PlaceUnder(b, parent, val) ==
    IF parent.k = "Obj" THEN PlaceInObj(b, parent, val)
    ELSE IF parent.k = "Arr" THEN PlaceInArr(b, parent.vec, val)
    ELSE PlaceErr(b, "panic")

\* a root value that takes the place of the root values before it
PlaceValueAlone(b, val) == Placed([b EXCEPT !.stack = <<FArr(<<val>>)>>])

PlaceValue(b, val) ==
    IF b.stack # <<>> THEN PlaceUnder(b, Top(b.stack), val)
    ELSE Placed([b EXCEPT !.stack = <<FArr(<<val>>)>>])   \* root value: the implicit array

\* the snapshot of the root, taken before the scalar's path item is popped
RootPartial(b, popped) ==
    IF ScalarMidStack(b.stack) THEN FedErr(b, "panic")
    ELSE Fed(popped, Partial(<<>>, current_root_json_value_snapshot(b).val))

\* a root snapshot after every value, streaming or not
SnapshotAfterValueAnyMode(b, val, popped) ==
    IF b.stack # <<>> THEN RootPartial(b, popped)
    ELSE IF ~b.streaming /\ b.stack = <<>> THEN Fed(popped, Complete(val))
    ELSE Fed(popped, NoSnapshot)

\* the tail of finish_value_and_maybe_snapshot, once val sits in its parent
SnapshotAfterValue(b, val, popped) ==
    IF b.streaming /\ b.stack # <<>> THEN RootPartial(b, popped)
    ELSE IF ~b.streaming /\ b.stack = <<>> THEN Fed(popped, Complete(val))
    ELSE Fed(popped, NoSnapshot)

AfterPlace(pl, val) ==
    IF pl.err # "none" THEN FedErr(pl.b, pl.err)
    ELSE IF ~pl.kept THEN Fed(pl.b, NoSnapshot)
    ELSE SnapshotAfterValue(pl.b, val, IF IsContainerValue(val) THEN pl.b ELSE PopPath(pl.b))

finish_value_and_maybe_snapshot(b, val) == AfterPlace(PlaceValue(b, val), val)

\* the scalar frame grown by a chunk
ChunkFed(b, buf) ==
    IF b.streaming THEN Fed(b, Partial(b.path, JString(buf))) ELSE Fed(b, NoSnapshot)

GrowFrame(b, kind, buf) == ChunkFed(SetTop(b, [k |-> kind, buf |-> buf]), buf)

ChunkInto(b, kind, chunk) == GrowFrame(b, kind, Top(b.stack).buf \o chunk)

\* StrChunk / NumberChunk / IdentChunk: grow the scalar frame
FeedChunk(b, kind, chunk) == ChunkInto(ensure_frame(b, kind), kind, chunk)

\* a finished string: the key its object waits for, or a value
StrCooked(berr, b, cooked) ==
    IF cooked.err # "none" THEN FedErr(berr, cooked.err)
    ELSE IF parent_wants_key(b)
        THEN Fed(SetTop(b, FObj(Top(b.stack).map, Some(cooked.s))), NoSnapshot)
    ELSE finish_value_and_maybe_snapshot(b, JString(cooked.s))

FeedStrEnd(b, chunk) ==
    IF parent_wants_key(b) THEN
        \* 1. an object still waiting for its key
        Fed(SetTop(b, FObj(Top(b.stack).map, Some(chunk))), NoSnapshot)
    ELSE IF TopIs(b, "Str") THEN
        \* 2. StrChunk parts were being accumulated
        StrCooked([b EXCEPT !.stack = Pop(@)], [b EXCEPT !.stack = Pop(@)],
                  unescape(Top(b.stack).buf \o chunk))
    ELSE
        \* 3. a one-shot value
        StrCooked(b, push_path_for_scalar(b), unescape(chunk))

\* a finished number
NumberParsed(berr, b, num) ==
    IF num.err # "none" THEN FedErr(berr, num.err)
    ELSE finish_value_and_maybe_snapshot(b, num.val)

\* a number that becomes the key of an object waiting for one
FeedNumberEndAsKey(b, tok) ==
    IF TopIs(b, "Num") /\ parent_wants_key([b EXCEPT !.stack = Pop(@)]) THEN
        Fed([b EXCEPT !.stack = Append(Pop(Pop(@)),
                                       FObj(Top(Pop(b.stack)).map,
                                            Some(Top(b.stack).buf \o tok)))],
            NoSnapshot)
    ELSE IF parent_wants_key(b) THEN
        Fed(SetTop(b, FObj(Top(b.stack).map, Some(tok))), NoSnapshot)
    ELSE IF TopIs(b, "Num") THEN
        NumberParsed(SetTop(b, FNum(Top(b.stack).buf \o tok)), [b EXCEPT !.stack = Pop(@)],
                     parse_number(Top(b.stack).buf \o tok))
    ELSE NumberParsed(b, push_path_for_scalar(b), parse_number(tok))

FeedNumberEnd(b, tok) ==
    IF TopIs(b, "Num") THEN
        NumberParsed(SetTop(b, FNum(Top(b.stack).buf \o tok)), [b EXCEPT !.stack = Pop(@)],
                     parse_number(Top(b.stack).buf \o tok))
    ELSE NumberParsed(b, push_path_for_scalar(b), parse_number(tok))

\* A. the word an IdentChunk series has gathered
IdentGathered(b, txt, lit) ==
    IF lit.some THEN finish_value_and_maybe_snapshot(b, lit.val)
    ELSE IF parent_wants_key(b)
        THEN Fed(SetTop(b, FObj(Top(b.stack).map, Some(txt))), NoSnapshot)
    ELSE finish_value_and_maybe_snapshot(b, JString(squash_ws(txt)))

\* a one-shot identifier in value position
IdentValue(b, tok, lit) ==
    finish_value_and_maybe_snapshot(b, IF lit.some THEN lit.val ELSE JString(tok))

FeedIdentEnd(b, tok) ==
    IF TopIs(b, "Ident") THEN
        \* A. continuing an IdentChunk series
        IdentGathered([b EXCEPT !.stack = Pop(@)], Top(b.stack).buf \o tok,
                      parse_ident(Top(b.stack).buf \o tok))
    ELSE IF parent_wants_key(b) THEN
        \* B. one-shot identifier in key position
        IF parse_ident(tok).some THEN FedErr(b, "InvalidKey")
        ELSE Fed(SetTop(b, FObj(Top(b.stack).map, Some(tok))), NoSnapshot)
    ELSE IdentValue(push_path_for_scalar(b), tok, parse_ident(tok))

ContainerFinished(b, fin) ==
    IF fin.err # "none" THEN FedErr(b, fin.err)
    ELSE finish_value_and_maybe_snapshot(fin.b, fin.val)

FeedEnd(b) == ContainerFinished(b, finish_container(b))

feed_event(b, ev) ==
    CASE ev.e = "StartObj" -> Fed(start_container(b, FObj(EmptyMap, None)), NoSnapshot)
      [] ev.e = "StartArr" -> Fed(start_container(b, FArr(<<>>)), NoSnapshot)
      [] ev.e \in {"EndObj", "EndArr"} -> FeedEnd(b)
      [] ev.e = "StrChunk" -> FeedChunk(b, "Str", ev.s)
      [] ev.e = "StrEnd" -> FeedStrEnd(b, ev.s)
      [] ev.e = "NumberChunk" -> FeedChunk(b, "Num", ev.s)
      [] ev.e = "NumberEnd" -> FeedNumberEnd(b, ev.s)
      [] ev.e = "IdentChunk" -> FeedChunk(b, "Ident", ev.s)
      [] ev.e = "IdentEnd" -> FeedIdentEnd(b, ev.s)

\* Builder::finish : Result<JsonValue, JsonError>; the builder is left as it is
finish(b, streaming) ==
    IF b.stack = <<>> THEN Ok(JNull)
    ELSE IF Len(b.stack) # 1 THEN
        IF streaming THEN
            IF ScalarMidStack(b.stack) THEN Err("panic")
            ELSE Ok(build_snapshot_from_stack_recursive(b.stack, 1))
        ELSE Err("UnexpectedEof")
    ELSE
        LET f == Top(b.stack) IN
        CASE f.k = "Arr" -> IF Len(f.vec) = 1 THEN Ok(f.vec[1]) ELSE Ok(JArray(f.vec))
          [] f.k = "Obj" -> Ok(JObject(f.map))
          [] f.k = "Str" -> LET u == unescape(f.buf) IN
                            IF u.err # "none" THEN Err(u.err) ELSE Ok(JString(u.s))
          [] f.k = "Num" -> parse_number(f.buf)
          [] f.k = "Ident" -> LET lit == parse_ident(f.buf) IN
                              IF lit.some THEN Ok(lit.val) ELSE Ok(JNull)

(***************************************************************************)
(* Parser: scanner + builder                                               *)
(***************************************************************************)

ParserNew(streaming) ==
    [scanner |-> ScannerNew, builder |-> BuilderNew(streaming), streaming |-> streaming]

\* [p, err, val] : the parser left behind and the Result of the call
Parsed(p, res) == [p |-> p, err |-> res.err, val |-> res.val]

\* the loop of Parser::parse: feed events until one yields a snapshot, the
\* scanner needs more input, or something fails
RECURSIVE ParseLoop(_)

\* Some(Snapshot::Partial { .. }): hand out the current root
ParseRoot(p, root) ==
    IF ~root.some THEN ParseLoop(p)
    ELSE IF ScalarMidStack(p.builder.stack) THEN Parsed(p, Err("panic"))
    ELSE Parsed(p, Ok(root.val))

\* match self.builder.feed_event(ev)?
ParseFed(p, fed) ==
    IF fed.err # "none" THEN Parsed([p EXCEPT !.builder = fed.b], Err(fed.err))
    ELSE IF fed.snap.kind = "Partial"
        THEN ParseRoot([p EXCEPT !.builder = fed.b], current_root_json_value_snapshot(fed.b))
    ELSE IF fed.snap.kind = "Complete"
        THEN Parsed([p EXCEPT !.builder = fed.b], Ok(fed.snap.value))
    ELSE ParseLoop([p EXCEPT !.builder = fed.b])

\* match self.scanner.next_step()
ParseScanned(p, st) ==
    IF st.kind = "Event"
        THEN ParseFed([p EXCEPT !.scanner = st.sc], feed_event(p.builder, st.ev))
    ELSE IF st.kind = "NeedMore"
        THEN Parsed([p EXCEPT !.scanner = st.sc], finish(p.builder, p.streaming))
    ELSE Parsed([p EXCEPT !.scanner = st.sc], Err(st.err))

ParseLoop(p) == ParseScanned(p, next_step(p.scanner))

parse(p, bytes) == ParseLoop([p EXCEPT !.scanner = ScannerPush(@, bytes)])

(***************************************************************************)
(* StreamParser: the callback step hands to TagFinder::push                *)
(***************************************************************************)

TagOpen(name) == [type |-> "Open", text |-> name]
TagBytes(text) == [type |-> "Bytes", text |-> text]
TagClose(name) == [type |-> "Close", text |-> name]

NoValue == [some |-> FALSE, val |-> JNull]
SomeValue(v) == [some |-> TRUE, val |-> v]

\* what the closure of step owns: the StreamParser's fields and `latest`
StreamCb(cap, inn, dn, wanted, latest) ==
    [kind |-> "stream", capturing |-> cap, inner |-> inn, done |-> dn,
     wanted |-> wanted, latest |-> latest]

\* the closure the router's own tests pass: it only collects the events
CollectCb == [kind |-> "collect"]

\* the wrapper's own test of a tag name against its lowercase wanted set
SpIsWanted(wanted, name) == wanted = {} \/ ToLowercase(name) \in wanted

\* [cb, err]
CbOk(cb) == [cb |-> cb, err |-> "none"]
CbErr(cb, e) == [cb |-> cb, err |-> e]

OnOpen(cb, name) ==
    LET cap == SpIsWanted(cb.wanted, name) IN
    CbOk([cb EXCEPT !.capturing = cap,
                    !.inner = IF cap THEN ParserNew(TRUE) ELSE @])

\* an array of exactly one element is handed out as that element
Unwrap1(v) == IF v.t = "Array" /\ Len(v.v) = 1 THEN v.v[1] ELSE v

\* match parse_res
BytesParsed(cb, r) ==
    IF r.err # "none" THEN CbErr([cb EXCEPT !.inner = r.p], r.err)
    ELSE CbOk([cb EXCEPT !.inner = r.p, !.latest = SomeValue(Unwrap1(r.val))])

OnBytes(cb, bytes) ==
    IF ~cb.capturing THEN CbOk(cb) ELSE BytesParsed(cb, parse(cb.inner, bytes))

\* process any remaining events in the scanner before finishing: [p, err]
RECURSIVE FlushLoop(_)

\* self.inner.builder.feed_event(ev)?
FlushFed(p, fed) ==
    IF fed.err # "none" THEN [p |-> [p EXCEPT !.builder = fed.b], err |-> fed.err]
    ELSE FlushLoop([p EXCEPT !.builder = fed.b])

\* match self.inner.scanner.next_step()
FlushScanned(p, st) ==
    IF st.kind = "Event"
        THEN FlushFed([p EXCEPT !.scanner = st.sc], feed_event(p.builder, st.ev))
    ELSE IF st.kind = "NeedMore" THEN [p |-> [p EXCEPT !.scanner = st.sc], err |-> "none"]
    ELSE [p |-> [p EXCEPT !.scanner = st.sc], err |-> st.err]

FlushLoop(p) == FlushScanned(p, next_step(p.scanner))

\* latest = Some(self.inner.builder.finish(true)?); self.done = true
CloseFinished(cb, fin) ==
    IF fin.err # "none" THEN CbErr(cb, fin.err)
    ELSE CbOk([cb EXCEPT !.latest = SomeValue(fin.val), !.done = TRUE, !.capturing = FALSE])

CloseFlushed(cb, fl) ==
    IF fl.err # "none" THEN CbErr([cb EXCEPT !.inner = fl.p], fl.err)
    ELSE CloseFinished([cb EXCEPT !.inner = fl.p], finish(fl.p.builder, TRUE))

OnClose(cb, name) ==
    IF ~(cb.capturing /\ SpIsWanted(cb.wanted, name)) THEN CbOk(cb)
    ELSE CloseFlushed(cb, FlushLoop(cb.inner))

StepCallback(cb, ev) ==
    CASE ev.type = "Open" -> OnOpen(cb, ev.text)
      [] ev.type = "Bytes" -> OnBytes(cb, ev.text)
      [] ev.type = "Close" -> OnClose(cb, ev.text)

Callback(cb, ev) == IF cb.kind = "collect" THEN CbOk(cb) ELSE StepCallback(cb, ev)

(***************************************************************************)
(* TagFinder                                                               *)
(***************************************************************************)

LowerSet(names) == {ToLowercase(n) : n \in names}

new_with_filter(wanted, ignored) ==
    [buf |-> <<>>, inside |-> FALSE, wanted |-> LowerSet(wanted),
     ignored |-> LowerSet(ignored), inside_ignored |-> FALSE, ignored_depth |-> 0]

\* the tail kept to recognise a split tag
TailKeep == 200

\* a push in progress: the router, the events emitted so far (with the flags
\* they were emitted under), the closure's state and its error, if any
\* iterations counts the turns of the loop that consumed a tag
Pushing(tf, cb) ==
    [tf |-> tf, out |-> <<>>, ctx |-> <<>>, cb |-> cb, err |-> "none", iterations |-> 0]

\* the event handed over, and what the closure made of it
Emitted(st, ev, r) ==
    [st EXCEPT !.out = Append(@, ev),
               !.ctx = Append(@, [inside |-> st.tf.inside, depth |-> st.tf.ignored_depth]),
               !.cb = r.cb, !.err = r.err]

\* emit(ev)
Emit(st, ev) == Emitted(st, ev, Callback(st.cb, ev))

\* the name of a tag, as written in the text
TagName(tag_body) ==
    FirstToken(IF StartsWith(tag_body, <<"/">>) THEN Tail(tag_body) ELSE tag_body)

\* the name compared as it is written
NameAsWritten(name) == name

\* name.to_lowercase()
NameLower(name) == ToLowercase(name)

IsIgnored(tf, name_lower) == name_lower \in tf.ignored

IsWanted(tf, name_lower) ==
    IF tf.wanted = {} THEN ~IsIgnored(tf, name_lower) ELSE name_lower \in tf.wanted

\* text before a '<' is payload outside a wanted region as well
EmitsLeadingAnywhere(tf, leading_text) == ~tf.inside_ignored /\ leading_text # <<>>

\* text before a '<' is payload iff inside a wanted region, outside ignored ones
EmitsLeading(tf, leading_text) == tf.inside /\ ~tf.inside_ignored /\ leading_text # <<>>

\* no tag is passed on
IsNestedTagNever(tf, is_wanted, is_ignored) == FALSE

\* a tag that is passed on verbatim
IsNestedTag(tf, is_wanted, is_ignored) ==
    tf.inside /\ ~tf.inside_ignored /\ ~is_wanted /\ ~is_ignored

\* emit(TagEvent::Open(name))?; self.inside = true
Opened(e) == IF e.err # "none" THEN e ELSE [e EXCEPT !.tf.inside = TRUE]

\* <Tag>
OpenTag(st, name, is_wanted, is_ignored) ==
    IF is_ignored THEN
        [st EXCEPT !.tf.inside_ignored = TRUE, !.tf.ignored_depth = @ + 1]
    ELSE IF is_wanted /\ ~st.tf.inside_ignored THEN Opened(Emit(st, TagOpen(name)))
    ELSE st

\* emit(TagEvent::Close(name))?; self.inside = false
Closed(e) == IF e.err # "none" THEN e ELSE [e EXCEPT !.tf.inside = FALSE]

\* </Tag>, an ignored close counted wherever it arrives
CloseTagUnguarded(st, name, is_wanted, is_ignored) ==
    IF is_ignored THEN
        [st EXCEPT !.tf.ignored_depth = @ - 1,
                   !.tf.inside_ignored = (st.tf.ignored_depth - 1 # 0)]
    ELSE IF is_wanted /\ ~st.tf.inside_ignored THEN Closed(Emit(st, TagClose(name)))
    ELSE st

\* </Tag>
CloseTag(st, name, is_wanted, is_ignored) ==
    IF is_ignored /\ st.tf.inside_ignored THEN
        [st EXCEPT !.tf.ignored_depth = @ - 1,
                   !.tf.inside_ignored = (st.tf.ignored_depth - 1 # 0)]
    ELSE IF is_wanted /\ ~st.tf.inside_ignored THEN Closed(Emit(st, TagClose(name)))
    ELSE st

\* the tail emitted inside an ignored tag as well
EmitsTailIgnored(tf) == tf.inside /\ tf.buf # <<>>

\* no '<' left in the buffer
EmitsTail(tf) == tf.inside /\ ~tf.inside_ignored /\ tf.buf # <<>>

\* the tail handling keeping the whole buffer
TailSplitNowhere(buf) == 0

\* self.buf.len() - keep, the byte index split_off is called with
TailSplit(buf) == Len(buf) - (IF Len(buf) < TailKeep THEN Len(buf) ELSE TailKeep)

KeptTail(buf) == From(buf, TailSplit(buf) + 1)

\* split_off panics when the index is inside a character
HandleTail(st) ==
    IF EmitsTail(st.tf) THEN Emit([st EXCEPT !.tf.buf = <<>>], TagBytes(st.tf.buf))
    ELSE IF ~IsCharBoundary(st.tf.buf, TailSplit(st.tf.buf)) THEN [st EXCEPT !.err = "panic"]
    ELSE [st EXCEPT !.tf.buf = KeptTail(@)]

\* what is kept when a tag is split across chunks
KeepSplitTag(buf, lt) == From(buf, lt)

RECURSIVE PushLoop(_)

\* the tag consumed up to its '>', which stays in the buffer
TagConsumedBeforeGt(st, gt) ==
    IF st.err # "none" THEN st
    ELSE PushLoop([st EXCEPT !.tf.buf = From(@, gt), !.iterations = @ + 1])

\* consume the tag itself and look for the next '<'
TagConsumed(st, gt) ==
    IF st.err # "none" THEN st
    ELSE PushLoop([st EXCEPT !.tf.buf = From(@, gt + 1), !.iterations = @ + 1])

\* the tag buf[lt..=gt], its name classified
TagClassified(st, lt, gt, is_close, name, is_wanted, is_ignored) ==
    IF IsNestedTag(st.tf, is_wanted, is_ignored)
        THEN TagConsumed(Emit(st, TagBytes(SubSeq(st.tf.buf, lt, gt))), gt)
    ELSE IF is_close THEN TagConsumed(CloseTag(st, name, is_wanted, is_ignored), gt)
    ELSE TagConsumed(OpenTag(st, name, is_wanted, is_ignored), gt)

TagNamed(st, lt, gt, is_close, name, name_lower) ==
    TagClassified(st, lt, gt, is_close, name,
                  IsWanted(st.tf, name_lower), IsIgnored(st.tf, name_lower))

TagParsed(st, lt, gt, is_close, name) ==
    TagNamed(st, lt, gt, is_close, name, NameLower(name))

\* analyse the tag
TagFound(st, lt, gt, tag_body) ==
    TagParsed(st, lt, gt, StartsWith(tag_body, <<"/">>), TagName(tag_body))

\* look for the matching '>'
FindClose(st, lt, off) ==
    IF st.err # "none" THEN st
    ELSE IF off = 0 THEN [st EXCEPT !.tf.buf = KeepSplitTag(@, lt)]
    ELSE TagFound(st, lt, lt + off - 1, SubSeq(st.tf.buf, lt + 1, lt + off - 2))

\* everything before the '<' is payload
LeadingText(st, lt, leading_text) ==
    FindClose(IF EmitsLeading(st.tf, leading_text) THEN Emit(st, TagBytes(leading_text))
              ELSE st,
              lt, Find(From(st.tf.buf, lt), ">"))

\* look for the next '<'
FindOpen(st, lt) ==
    IF lt = 0 THEN HandleTail(st) ELSE LeadingText(st, lt, SubSeq(st.tf.buf, 1, lt - 1))

PushLoop(st) == FindOpen(st, Find(st.tf.buf, "<"))

\* TagFinder::push(chunk, emit)
push(tf, chunk, cb) == PushLoop(Pushing([tf EXCEPT !.buf = @ \o chunk], cb))

(***************************************************************************)
(* StreamParser::step                                                      *)
(***************************************************************************)

\* Result<Option<JsonValue>, JsonError>
RetNone == [err |-> "none", some |-> FALSE, val |-> JNull]
RetOf(st) == [err |-> st.err, some |-> st.err = "none" /\ st.cb.latest.some,
              val |-> IF st.err = "none" /\ st.cb.latest.some THEN st.cb.latest.val ELSE JNull]

\* a step that goes on although the stream is done
AlreadyDoneNever(dn) == FALSE

\* the early return of step
AlreadyDone(dn) == dn

\* the push of a step that goes on
StepPush(tf, cap, inn, dn, wanted, chunk) ==
    push(tf, chunk, StreamCb(cap, inn, dn, wanted, NoValue))

\* StreamParser::new(tags, ignored)
StreamParserNew(tags, ign) ==
    [tagger |-> new_with_filter(tags, ign), wanted |-> LowerSet(tags),
     ignored |-> LowerSet(ign), inner |-> ParserNew(TRUE), done |-> FALSE,
     capturing |-> FALSE]

(***************************************************************************)
(* The caller: JSON texts as the reference serialiser writes them, wrapped *)
(* in tags and cut into chunks                                             *)
(***************************************************************************)

\* the longest array and the deepest nesting of the sampled JSON values
MaxElems == 2
MaxNest == 1

\* the longest chunk a step is given, short of the whole rest of the input
MaxStep == 4
\* the longest chunk and the longest carry-over of the router runs
MaxChunk == 2
MaxBuf == 3
\* the deepest nesting of ignored tags of the router runs
MaxDepth == 2

Leaves == {JBoolean(TRUE), JInteger(20), JString(<<>>), JString(<<"a", ",">>)}

SeqsUpTo(S, n) == UNION {[1..k -> S] : k \in 0..n}

Containers(S) ==
    {JArray(v) : v \in SeqsUpTo(S, MaxElems)}
        \cup {JObject(EmptyMap)}
        \cup {JObject([k \in {<<"a">>} |-> v]) : v \in S}
        \cup {JObject([k \in {<<"a">>, <<"b">>} |-> IF k = <<"a">> THEN JInteger(1) ELSE v]) : v \in S}

RECURSIVE ValuesOfDepth(_)
ValuesOfDepth(d) ==
    IF d = 0 THEN Leaves
    ELSE LET inner_values == ValuesOfDepth(d - 1) IN
         inner_values \cup {JArray(<<v>>) : v \in inner_values}
                      \cup {JObject([k \in {<<"a">>} |-> v]) : v \in inner_values}

Values == Containers(Leaves) \cup ValuesOfDepth(MaxNest + 1)

Digit(n) == CASE n = 0 -> "0" [] n = 1 -> "1" [] n = 2 -> "2" [] n = 3 -> "3" [] n = 4 -> "4"
              [] n = 5 -> "5" [] n = 6 -> "6" [] n = 7 -> "7" [] n = 8 -> "8" [] n = 9 -> "9"

RECURSIVE IntToDigits(_)
IntToDigits(n) == IF n < 10 THEN <<Digit(n)>> ELSE Append(IntToDigits(n \div 10), Digit(n % 10))

RECURSIVE SetToSeq(_)
SetToSeq(S) ==
    IF S = {} THEN <<>>
    ELSE LET x == CHOOSE y \in S : TRUE IN <<x>> \o SetToSeq(S \ {x})

RECURSIVE JoinComma(_)
JoinComma(parts) ==
    IF parts = <<>> THEN <<>>
    ELSE IF Len(parts) = 1 THEN parts[1]
    ELSE parts[1] \o <<",">> \o JoinComma(Tail(parts))

Quoted(s) == <<"\"">> \o s \o <<"\"">>

\* serde_json::to_string
RECURSIVE Serialize(_)
Serialize(v) ==
    CASE v.t = "Null" -> <<"n", "u", "l", "l">>
      [] v.t = "Boolean" -> IF v.b THEN <<"t", "r", "u", "e">> ELSE <<"f", "a", "l", "s", "e">>
      [] v.t = "Number" -> IF v.mant < 0 THEN <<"-">> \o IntToDigits(-v.mant)
                           ELSE IntToDigits(v.mant)
      [] v.t = "String" -> Quoted(v.s)
      [] v.t = "Array" -> <<"[">> \o JoinComma([k \in DOMAIN v.v |-> Serialize(v.v[k])]) \o <<"]">>
      [] v.t = "Object" ->
            LET keys == SetToSeq(DOMAIN v.m) IN
            <<"{">> \o JoinComma([k \in DOMAIN keys |->
                                    Quoted(keys[k]) \o <<":">> \o Serialize(v.m[keys[k]])])
                    \o <<"}">>

OpenText(name) == <<"<">> \o name \o <<">">>
CloseText(name) == <<"<", "/">> \o name \o <<">">>

\* pre <open> J </close> post
SampleText(sm) ==
    sm.pre \o OpenText(sm.open) \o Serialize(sm.value) \o CloseText(sm.close) \o sm.post

\* format!("<T>{}</T>", json)
PlainSamples ==
    {[pre |-> <<>>, open |-> <<"T">>, value |-> v, close |-> <<"T">>, post |-> <<>>,
      wanted |-> {}, ignored |-> {}] : v \in Values}

\* text around the region: chatter, stray and mismatched tags, a second region
Pres == {<<>>, <<"x">>, OpenText(<<"T">>) \o <<"2">>, CloseText(<<"T">>), OpenText(<<"i">>) \o <<"9">> \o CloseText(<<"i">>)}
Posts == {<<"x">>, <<" ", "2">>, OpenText(<<"T">>) \o <<"2">> \o CloseText(<<"T">>),
          OpenText(<<"T">>) \o <<"2">>, CloseText(<<"T">>)}
TagPairs == {<<<<"T">>, <<"T">>>>, <<<<"T">>, <<"t">>>>, <<<<"T">>, <<"u">>>>}
StreamConfigs ==
    {[wanted |-> {}, ignored |-> {}],
     [wanted |-> {<<"t">>}, ignored |-> {<<"I">>}],
     [wanted |-> {<<"T">>, <<"U">>}, ignored |-> {}]}

FramedSamples ==
    {[pre |-> pre, open |-> tp[1], value |-> v, close |-> tp[2], post |-> post,
      wanted |-> c.wanted, ignored |-> c.ignored] :
        pre \in Pres, post \in Posts, tp \in TagPairs,
        v \in {JInteger(1)}, c \in StreamConfigs}

Samples == PlainSamples \cup FramedSamples

(***************************************************************************)
(* The stream: a StreamParser fed a sample in chunks                       *)
(***************************************************************************)

NoSample ==
    [pre |-> <<>>, open |-> <<>>, value |-> JNull, close |-> <<>>, post |-> <<>>,
     wanted |-> {}, ignored |-> {}]

InitOf(sp, sm, text) ==
    /\ tagger = sp.tagger
    /\ capturing = sp.capturing
    /\ inner = sp.inner
    /\ done = sp.done
    /\ spWanted = sp.wanted
    /\ spIgnored = sp.ignored
    /\ out = <<>>
    /\ ctx = <<>>
    /\ chunkIn = <<>>
    /\ before = sp.tagger
    /\ ret = RetNone
    /\ sample = sm
    /\ input = text
    /\ pos = 0
    /\ call = "none"
    /\ event = Event("none", <<>>)
    /\ snapshot = NoSnapshot

Init == \E sm \in Samples :
            InitOf(StreamParserNew(sm.wanted, sm.ignored), sm, SampleText(sm))

\* step(chunk), chunk being the next n characters of the input
Stepped(st) ==
    /\ tagger' = st.tf
    /\ capturing' = st.cb.capturing
    /\ inner' = st.cb.inner
    /\ done' = st.cb.done
    /\ out' = st.out
    /\ ctx' = st.ctx
    /\ ret' = RetOf(st)

StepWith(chunk) ==
    /\ chunkIn' = chunk
    /\ before' = tagger
    /\ IF AlreadyDone(done) THEN
           /\ ret' = RetNone
           /\ out' = <<>>
           /\ ctx' = <<>>
           /\ UNCHANGED <<tagger, capturing, inner, done>>
       ELSE Stepped(StepPush(tagger, capturing, inner, done, spWanted, chunk))

Step(n) ==
    /\ ret.err = "none"
    /\ pos + n <= Len(input)
    /\ (n > 0 \/ pos = Len(input))
    /\ pos' = pos + n
    /\ StepWith(SubSeq(input, pos + 1, pos + n))
    /\ UNCHANGED <<spWanted, spIgnored, sample, input, call, event, snapshot>>

\* the chunks are short, or the whole rest of the input
StepSizes == (0..MaxStep) \cup {Len(input) - pos}

Next == \E n \in StepSizes : Step(n)

Spec == Init /\ [][Next]_vars

(***************************************************************************)
(* The router alone: a TagFinder pushed arbitrary chunks                   *)
(***************************************************************************)

TagAlphabet == {"<", ">", "/", "T", "I", "b", " "}

\* whole tags with text after them, and two tags at once
TagWords ==
    {OpenText(<<"T">>) \o <<"b">>, CloseText(<<"T">>) \o <<"b">>,
     OpenText(<<"I">>) \o <<"b">>, CloseText(<<"I">>) \o <<"b">>,
     OpenText(<<"T">>) \o CloseText(<<"T">>)}

\* the chunks are short, or a whole tag with text
TagChunks == UNION {[1..k -> TagAlphabet] : k \in 1..MaxChunk} \cup TagWords

TagConfigs ==
    {[wanted |-> {<<"t">>}, ignored |-> {<<"I">>}],
     [wanted |-> {}, ignored |-> {<<"i">>}]}

TagInit == \E c \in TagConfigs :
               InitOf(StreamParserNew(c.wanted, c.ignored), NoSample, <<>>)

\* push(chunk, emit) with a closure that collects the events
Pushed(chunk, st) ==
    /\ Len(st.tf.buf) <= MaxBuf
    /\ st.tf.ignored_depth <= MaxDepth
    /\ tagger' = st.tf
    /\ out' = st.out
    /\ ctx' = st.ctx
    /\ chunkIn' = chunk
    /\ before' = tagger
    /\ ret' = [RetNone EXCEPT !.err = st.err]
    /\ UNCHANGED <<capturing, inner, done, spWanted, spIgnored, sample, input, pos,
                   call, event, snapshot>>

Push(chunk) == ret.err = "none" /\ Pushed(chunk, push(tagger, chunk, CollectCb))

TagNext == \E chunk \in TagChunks : Push(chunk)

TagSpec == TagInit /\ [][TagNext]_vars

(***************************************************************************)
(* The router alone, fed a long text in chunks                             *)
(***************************************************************************)

RECURSIVE Repeat(_, _)
Repeat(s, n) == IF n = 0 THEN <<>> ELSE s \o Repeat(s, n - 1)

\* chatter longer than the tail the router keeps, then a region
\* a tag longer than the tail the router keeps
LongTagText ==
    <<"a", "<", "x", " ">> \o Repeat(<<"x", "y">>, TailKeep \div 2) \o <<">", "c">>

LongTexts ==
    {<<"a">> \o Repeat(t, TailKeep \div Len(t)) \o <<"b", "c">>
        \o OpenText(<<"T">>) \o <<"b">> : t \in {WideChar, <<"x", "y">>}}
    \cup {LongTagText}

LongInit == \E text \in LongTexts : InitOf(StreamParserNew({}, {}), NoSample, text)

\* push(chunk, emit), chunk being the next n bytes of the text, a &str
LongPush(n) ==
    /\ ret.err = "none"
    /\ n > 0
    /\ pos + n <= Len(input)
    /\ IsCharBoundary(input, pos + n)
    /\ pos' = pos + n
    /\ LET st == push(tagger, SubSeq(input, pos + 1, pos + n), CollectCb)
       IN /\ tagger' = st.tf
          /\ out' = st.out
          /\ ctx' = st.ctx
          /\ ret' = [RetNone EXCEPT !.err = st.err]
    /\ chunkIn' = SubSeq(input, pos + 1, pos + n)
    /\ before' = tagger
    /\ UNCHANGED <<capturing, inner, done, spWanted, spIgnored, sample, input,
                   call, event, snapshot>>

LongNext == \E n \in StepSizes : LongPush(n)

LongSpec == LongInit /\ [][LongNext]_vars

(***************************************************************************)
(* The parser alone: text given to parse, or pushed to the scanner and     *)
(* fed to the builder event by event                                       *)
(***************************************************************************)

\* how many values follow one another at the root
MaxRoots == 2

RootValues ==
    {JInteger(1), JBoolean(TRUE), JString(<<"a">>), JString(<<>>), JString(<<"a", ",">>),
     JArray(<<JInteger(1)>>), JObject(MapInsert(EmptyMap, <<"a">>, JInteger(1)))}

\* whitespace, a comma, a newline or nothing
Separators == {<<" ">>, <<",">>, <<"\n">>, <<>>}

\* a number or a word is completed by the character after it
SelfDelimiting(v) == v.t \in {"String", "Array", "Object"}

RootSamples ==
    UNION {{[kind |-> "roots", values |-> vs, seps |-> ss, text |-> <<>>] :
                vs \in [1..n -> RootValues],
                ss \in {f \in [1..n -> Separators] :
                            \A k \in 1..n : k = n => f[k] \in {<<" ">>, <<>>}}} :
           n \in 1..MaxRoots}

\* an object whose key is a bare true, false or null
KeywordKeyTexts ==
    {<<"{", "t", "r", "u", "e", ":", "1", "}">>,
     <<"{", "f", "a", "l", "s", "e", ":", "1", "}">>,
     <<"{", "n", "u", "l", "l", ":", "1", "}">>}

\* objects with bare words as keys
BareKeyTexts ==
    {<<"{", "t", ":", "1", "}">>,
     <<"{", "a", "b", ":", "1", "}">>,
     <<"{", "n", "u", "l", ":", "1", "}">>,
     <<"{", "_", "x", "1", ":", "1", "}">>,
     <<"{", "t", "r", "u", "e", "x", ":", "1", "}">>,
     <<"{", "\"", "a", "\"", ":", "1", ",", "b", ":", "2", "}">>}

\* texts that end inside a scalar or a container
CutTexts ==
    {<<"-">>,
     <<"\"", "a", "\\">>,
     <<"[", "1", ",", "-">>,
     <<"t", "r", "u">>,
     <<"[">>,
     <<"[", "1">>,
     <<"{", "\"", "a", "\"", ":", "1">>,
     <<"[", "[", "1", "]">>,
     <<"{", "\"", "a", "\"", ":", "[", "1">>,
     <<"{", "\"", "a", "\"", ":", "-">>}

\* scalars of several characters at the root and inside containers
NestedTexts ==
    {<<"{", "\"", "a", "\"", ":", "\"", "b", "c", "d", "\"", "}">>,
     <<"[", "\"", "a", "\"", ",", "\"", "b", "c", "d", "\"", "]">>,
     <<"{", "\"", "a", "\"", ":", "{", "\"", "b", "\"", ":", "\"", "c", "d", "\"", "}", "}">>,
     <<"[", "[", "1", "]", ",", "\"", "a", "b", "\"", "]">>,
     <<"\"", "a", "b", "c", "d", "\"">>,
     <<"[", "1", "2", ",", "3", "4", "5", "]">>,
     <<"[", "t", "r", "u", "e", ",", "x", "y", "x", "]">>}

\* a key given twice, and strings ending in a comma
RepeatTexts ==
    {<<"[", "\"", "a", ",", "\"", ",", "\"", "b", "\"", "]">>,
     <<"[", "\"", "\"", ",", "\"", "b", "c", "\"", "]">>,
     <<"{", "\"", "a", "\"", ":", "1", ",", "\"", "a", "\"", ":", "2", "}">>,
     <<"{", "\"", "a", "\"", ":", "1", ",", "\"", "a", "\"", ":", "[", "2", "]", "}">>,
     <<"{", "\"", "a", "\"", ":", "\"", "x", "\"", ",", "\"", "b", "\"", ":", "1", ",", "\"", "a", "\"", ":", "\"", "y", "\"", "}">>}

\* a key and a value with an escape
EscapeTexts ==
    {<<"{", "\"", "a", "\\", "n", "\"", ":", "1", "}">>,
     <<"[", "\"", "a", "\\", "n", "\"", "]">>}

\* keys of several characters after a completed entry
LongKeyTexts ==
    {<<"{", "\"", "a", "\"", ":", "1", ",", "\"", "b", "c", "\"", ":", "2", "}">>,
     <<"{", "\"", "a", "\"", ":", "1", ",", "\"", "a", "b", "\"", ":", "2", "}">>}

\* strings ending in a comma and empty strings in arrays below the root
InnerArrayTexts ==
    {<<"[", "[", "\"", "a", ",", "\"", ",", "\"", "b", "\"", "]", "]">>,
     <<"{", "\"", "a", "\"", ":", "[", "\"", "\"", ",", "\"", "b", "\"", "]", "}">>,
     <<"[", "1", ",", "\"", "a", ",", " ", "\"", ",", "\"", "b", "\"", "]">>}

\* numbers that start with the decimal point
PointTexts ==
    {<<".", "5">>,
     <<"-", ".", "7">>,
     <<"[", ".", "5", ",", "-", ".", "7", "]">>,
     <<"[", "0", ".", "5", ",", "-", "0", ".", "7", "]">>}

TextSamples ==
    {[kind |-> "text", values |-> <<>>, seps |-> <<>>, text |-> txt] :
        txt \in KeywordKeyTexts \cup BareKeyTexts \cup CutTexts \cup NestedTexts
                 \cup RepeatTexts \cup EscapeTexts \cup LongKeyTexts
                 \cup InnerArrayTexts \cup PointTexts}

BuildSamples ==
    {sm \in RootSamples :
        \A k \in DOMAIN sm.values : SelfDelimiting(sm.values[k]) \/ sm.seps[k] # <<>>}
        \cup TextSamples

BuildText(sm) ==
    IF sm.kind = "roots"
    THEN Flatten([k \in DOMAIN sm.values |-> Serialize(sm.values[k]) \o sm.seps[k]])
    ELSE sm.text

\* Parser::new(streaming), nothing parsed yet
BuildInit ==
    \E sm \in BuildSamples, streaming \in BOOLEAN :
        InitOf([StreamParserNew({}, {}) EXCEPT !.inner = ParserNew(streaming)],
               sm, BuildText(sm))

\* a call on the parser has failed
Failed == ret.err # "none" /\ call # "finish"

\* the result of a call, as step would hand it on
ResultOf(r) == [err |-> r.err, some |-> r.err = "none", val |-> r.val]

BuildIdle == UNCHANGED <<tagger, capturing, done, spWanted, spIgnored, out, ctx, before,
                         sample, input>>

\* parse(bytes), bytes being the next n characters of the text
Parsing(chunk, r) ==
    /\ inner' = r.p
    /\ ret' = ResultOf(r)
    /\ chunkIn' = chunk
    /\ call' = "parse"
    /\ UNCHANGED <<event, snapshot>>
    /\ BuildIdle

Parse(n) ==
    /\ ~Failed
    /\ call \in {"none", "parse"}
    /\ n > 0
    /\ pos + n <= Len(input)
    /\ pos' = pos + n
    /\ Parsing(SubSeq(input, pos + 1, pos + n),
               parse(inner, SubSeq(input, pos + 1, pos + n)))

\* scanner.push(part), once the scanner has asked for more
ChunkPushed(n, st) ==
    /\ st.kind = "NeedMore"
    /\ inner' = [inner EXCEPT !.scanner = ScannerPush(st.sc, SubSeq(input, pos + 1, pos + n))]
    /\ chunkIn' = SubSeq(input, pos + 1, pos + n)
    /\ call' = "push"
    /\ UNCHANGED <<ret, event, snapshot>>
    /\ BuildIdle

ScanPush(n) ==
    /\ ~Failed
    /\ call # "parse"
    /\ n > 0
    /\ pos + n <= Len(input)
    /\ pos' = pos + n
    /\ ChunkPushed(n, next_step(inner.scanner))

\* builder.feed_event(ev)
EventFed(st, fed) ==
    /\ inner' = [inner EXCEPT !.scanner = st.sc, !.builder = fed.b]
    /\ ret' = [RetNone EXCEPT !.err = fed.err]
    /\ event' = st.ev
    /\ snapshot' = fed.snap
    /\ call' = "feed_event"

\* match scanner.next_step()
Scanned(st) ==
    /\ st.kind # "NeedMore"
    /\ IF st.kind = "Event" THEN EventFed(st, feed_event(inner.builder, st.ev))
       ELSE /\ inner' = [inner EXCEPT !.scanner = st.sc]
            /\ ret' = [RetNone EXCEPT !.err = st.err]
            /\ call' = "next_step"
            /\ UNCHANGED <<event, snapshot>>
    /\ UNCHANGED <<pos, chunkIn>>
    /\ BuildIdle

FeedNext ==
    /\ ~Failed
    /\ call # "parse"
    /\ Scanned(next_step(inner.scanner))

\* builder.finish(streaming), at the end of what has been pushed
Finish ==
    /\ ~Failed
    /\ call \in {"push", "feed_event"}
    /\ next_step(inner.scanner).kind = "NeedMore"
    /\ ret' = ResultOf(finish(inner.builder, inner.streaming))
    /\ call' = "finish"
    /\ UNCHANGED <<inner, pos, chunkIn, event, snapshot>>
    /\ BuildIdle

BuildNext ==
    \/ \E n \in StepSizes : Parse(n)
    \/ \E n \in StepSizes : ScanPush(n)
    \/ FeedNext
    \/ Finish

BuildSpec == BuildInit /\ [][BuildNext]_vars

(***************************************************************************)
(* The router with two ignored names, fed whole tags                       *)
(***************************************************************************)

IgnoredNames == {<<"I">>, <<"J">>}

\* a tag, alone or with text behind it
TagThenText(tag) == {tag, tag \o <<"b">>}

IgnoreChunks ==
    UNION {TagThenText(OpenText(n)) \cup TagThenText(CloseText(n)) :
              n \in IgnoredNames \cup {<<"T">>}}
        \cup {<<"b">>}

IgnoreConfigs ==
    {[wanted |-> {<<"t">>}, ignored |-> IgnoredNames],
     [wanted |-> {}, ignored |-> IgnoredNames]}

IgnoreInit == \E c \in IgnoreConfigs :
                  InitOf(StreamParserNew(c.wanted, c.ignored), NoSample, <<>>)

IgnoreNext == \E chunk \in IgnoreChunks : Push(chunk)

IgnoreSpec == IgnoreInit /\ [][IgnoreNext]_vars

(***************************************************************************)
(* The builder alone, given events by its caller                           *)
(***************************************************************************)

MaxEvents == 4

\* the events a caller of feed_event hands over
EventAlphabet ==
    {Event("StartObj", <<>>), Event("EndObj", <<>>),
     Event("StartArr", <<>>), Event("EndArr", <<>>),
     Event("StrChunk", <<"a">>), Event("StrEnd", <<"b">>),
     Event("NumberChunk", <<"1">>), Event("NumberEnd", <<"2">>),
     Event("IdentChunk", <<"t">>), Event("IdentEnd", <<"r">>),
     Event("IdentEnd", <<"x", " ", " ", "y">>), Event("IdentEnd", <<"T", "r", "u", "e">>)}

\* Builder::new(streaming), no event fed yet
EventInit ==
    \E streaming \in BOOLEAN :
        InitOf([StreamParserNew({}, {}) EXCEPT !.inner = ParserNew(streaming)],
               NoSample, <<>>)

\* builder.feed_event(ev), called directly
EventGiven(ev, fed) ==
    /\ inner' = [inner EXCEPT !.builder = fed.b]
    /\ ret' = [RetNone EXCEPT !.err = fed.err]
    /\ event' = ev
    /\ snapshot' = fed.snap
    /\ call' = "feed_event"
    /\ pos' = pos + 1
    /\ UNCHANGED chunkIn
    /\ BuildIdle

FeedEvent(ev) ==
    /\ ~Failed
    /\ pos < MaxEvents
    /\ EventGiven(ev, feed_event(inner.builder, ev))

\* builder.finish(streaming), called directly
FinishBuilder ==
    /\ ~Failed
    /\ call # "finish"
    /\ ret' = ResultOf(finish(inner.builder, inner.streaming))
    /\ call' = "finish"
    /\ UNCHANGED <<inner, pos, chunkIn, event, snapshot>>
    /\ BuildIdle

EventNext ==
    \/ \E ev \in EventAlphabet : FeedEvent(ev)
    \/ FinishBuilder

EventSpec == EventInit /\ [][EventNext]_vars

(***************************************************************************)
(* The stream's contract                                                   *)
(***************************************************************************)

\* the last step is the one that made the stream done
Finishing == done /\ out # <<>>

\* C1: for a valid JSON text J and any split of <T>J</T> into chunks, the
\* step that makes the stream done returns the value the reference parser
\* produces from J.
C1_StreamEqualsReference ==
    (Finishing /\ sample \in PlainSamples) => (ret.some /\ ret.val = sample.value)

\* C2: once is_done() is true, every later step returns Ok(None), is_done()
\* stays true, and the tag router, the scanner and the builder are left as
\* they were.
C2_DoneIsFinal ==
    [][done => /\ done'
               /\ ret' = RetNone
               /\ tagger' = tagger
               /\ inner' = inner
               /\ capturing' = capturing]_vars

\* a non-empty chunk has been given to a stream that was done
C2_SteppedAfterDone == done /\ out = <<>> /\ chunkIn # <<>> /\ ret = RetNone

\* the text given to the stream so far
FedText == SubSeq(input, 1, pos)

\* the name of a tag body, folded to lowercase
RefName(body) == ToLowercase(TagName(body))

\* the complete tags of a text, in order, with the position of their '>'
RECURSIVE RefTags(_, _)
RefTags(text, offset) ==
    LET lt  == Find(text, "<")
        off == IF lt = 0 THEN 0 ELSE Find(From(text, lt), ">")
    IN IF off = 0 THEN <<>>
       ELSE <<[close |-> text[lt + 1] = "/",
               text  |-> TagName(SubSeq(text, lt + 1, lt + off - 2)),
               name  |-> RefName(SubSeq(text, lt + 1, lt + off - 2)),
               last  |-> offset + lt + off - 1]>>
            \o RefTags(From(text, lt + off), offset + lt + off - 1)

\* the caller's sets, compared without regard to case
RefIgnored(name) == \E i \in sample.ignored : ToLowercase(i) = name
RefWanted(name) ==
    IF sample.wanted = {} THEN ~RefIgnored(name)
    ELSE \E w \in sample.wanted : ToLowercase(w) = name

\* how many ignored tags are open before tag k
RECURSIVE RefDepth(_, _)
RefDepth(tags, k) ==
    IF k = 1 THEN 0
    ELSE LET d == RefDepth(tags, k - 1)
             t == tags[k - 1]
         IN IF ~RefIgnored(t.name) THEN d
            ELSE IF ~t.close THEN d + 1
            ELSE IF d > 0 THEN d - 1 ELSE 0

RefVisible(tags, k) == ~RefIgnored(tags[k].name) /\ RefDepth(tags, k) = 0

\* tag b closes a wanted tag that was opened before it
RefCloses(tags, b) ==
    /\ tags[b].close
    /\ RefWanted(tags[b].name)
    /\ RefVisible(tags, b)
    /\ \E a \in 1..(b - 1) :
          ~tags[a].close /\ tags[a].name = tags[b].name /\ RefVisible(tags, a)

RefDone(tags) == \E b \in DOMAIN tags : RefCloses(tags, b)

\* C3: is_done() is false after every step until the step whose chunk completes
\* the first closing tag of a wanted tag that follows that tag's opening, and
\* true after that step.
C3_DoneAtFirstWantedClose ==
    ret.err = "none" => (done <=> RefDone(RefTags(FedText, 0)))

\* where the sample's own close tag ends
SampleEnd ==
    Len(sample.pre) + Len(OpenText(sample.open)) + Len(Serialize(sample.value))
        + Len(CloseText(sample.close))

\* the first close of an opened wanted tag is the sample's own close tag
RefFirstIsSamples(tags) ==
    \E b \in DOMAIN tags :
        /\ RefCloses(tags, b)
        /\ tags[b].last = SampleEnd
        /\ \A c \in 1..(b - 1) : ~RefCloses(tags, c)

\* C4: the step that makes the stream done returns the finalised value of the
\* region closed by the first wanted close tag; what follows that close tag
\* in the same chunk is not parsed and does not change the value.
C4_ValueOfFirstRegion ==
    (Finishing /\ sample \in FramedSamples /\ RefFirstIsSamples(RefTags(input, 0)))
        => (ret.some /\ ret.val = sample.value)

\* C5: when step returns, every scanner event the payload delivered so far
\* gives rise to has been fed to the builder: none is left in the scanner.
C5_NoEventLeftInScanner ==
    ret.err = "none" => next_step(inner.scanner).kind # "Event"

(***************************************************************************)
(* The router's contract                                                   *)
(***************************************************************************)

\* the text a push works on: what was carried over, then the chunk
PushText == before.buf \o chunkIn

IsTagEvent(ev) == ev.type \in {"Open", "Close"}

\* C6: while the router is inside an ignored tag (ignored_depth > 0), push
\* emits no Open, Payload or Close event: no event is emitted at a positive
\* depth, and a push that starts at a positive depth and holds no closing tag
\* emits nothing at all.
C6_NothingFromIgnored ==
    /\ \A k \in DOMAIN out : ctx[k].depth = 0
    /\ (before.ignored_depth > 0 /\ ~Contains(PushText, "/")) => out = <<>>
    /\ tagger.inside_ignored <=> tagger.ignored_depth > 0

\* a wanted tag and text arrive inside an ignored tag
C6_PushedInsideIgnored ==
    /\ before.inside
    /\ before.ignored_depth > 0
    /\ PushText = <<"<", "T", ">", "b">>
    /\ out = <<>>

\* the first tag of the text a push works on, with the text after it
FirstTag(text) == SubSeq(text, 1, Find(text, ">"))
AfterFirstTag(text) == From(text, Find(text, ">") + 1)

\* the push works on one complete tag, followed by text without a '<'
OneTagPushed ==
    /\ StartsWith(PushText, <<"<">>)
    /\ Contains(PushText, ">")
    /\ ~Contains(AfterFirstTag(PushText), "<")

\* the name of that tag is in neither of the configured sets
FirstTagIsForeign ==
    LET name == RefName(SubSeq(FirstTag(PushText), 2, Len(FirstTag(PushText)) - 1))
    IN tagger.wanted # {} /\ name \notin tagger.wanted /\ name \notin tagger.ignored

\* C7: inside a wanted region and outside any ignored region, a tag whose
\* name is neither wanted nor ignored is emitted unchanged as Payload, with
\* its '<' and '>', in its opening and in its closing form, and causes no
\* Open or Close event.
C7_NestedTagVerbatim ==
    (before.inside /\ before.ignored_depth = 0 /\ OneTagPushed /\ FirstTagIsForeign)
        => /\ out = <<TagBytes(FirstTag(PushText))>>
                    \o (IF AfterFirstTag(PushText) = <<>> THEN <<>>
                        ELSE <<TagBytes(AfterFirstTag(PushText))>>)
           /\ tagger.inside
           /\ tagger.ignored_depth = 0

\* a closing tag of a foreign name has been passed on
C7_ForeignClosePassed ==
    /\ before.inside
    /\ before.ignored_depth = 0
    /\ tagger.wanted # {}
    /\ PushText = <<"<", "/", "b", ">">>
    /\ out = <<TagBytes(PushText)>>

\* adjacent Payload events joined: the text between consecutive tag events
RECURSIVE JoinBytes(_)
JoinBytes(evs) ==
    IF Len(evs) < 2 THEN evs
    ELSE IF evs[1].type = "Bytes" /\ evs[2].type = "Bytes"
        THEN JoinBytes(<<TagBytes(evs[1].text \o evs[2].text)>> \o SubSeq(evs, 3, Len(evs)))
    ELSE <<evs[1]>> \o JoinBytes(Tail(evs))

\* a push appended to the pushes before it
PushMore(st, nxt) == [nxt EXCEPT !.out = st.out \o @, !.ctx = st.ctx \o @]

\* the rest of a chunk pushed after its first part, unless that panicked
PushSecond(first, rest) ==
    IF first.err # "none" THEN first
    ELSE PushMore(first, push(first.tf, rest, CollectCb))

\* the chunk pushed in two parts, the first of k bytes
PushSplit(k) ==
    PushSecond(push(before, SubSeq(chunkIn, 1, k), CollectCb), From(chunkIn, k + 1))

\* the push of the chunk and the pushes of its two parts agree
SameAsSplit(two) ==
    /\ two.err = ret.err
    /\ JoinBytes(two.out) = JoinBytes(out)
    /\ ret.err = "none" => two.tf = tagger

\* while no '>' has arrived nothing of a tag is emitted, and the tag is kept
NothingBeforeGt ==
    ~Contains(PushText, ">")
        => /\ \A k \in DOMAIN out : ~IsTagEvent(out[k]) /\ ~Contains(out[k].text, "<")
           /\ Contains(PushText, "<") => tagger.buf = From(PushText, Find(PushText, "<"))

\* C8: the router's output does not depend on chunking: pushing a chunk gives
\* the same outcome, the same Open and Close events, the same Payload text
\* between them and the same router as pushing it in two parts, wherever it
\* is split; no event for a tag is emitted before its '>' has arrived.
C8_ChunkingIsInvisible ==
    /\ \A k \in 1..(Len(chunkIn) - 1) :
          IsCharBoundary(chunkIn, k) => SameAsSplit(PushSplit(k))
    /\ NothingBeforeGt

\* whether the router is inside a wanted region before event k of the push
InsideAt(k) ==
    LET tagEvs == {j \in 1..(k - 1) : IsTagEvent(out[j])}
    IN IF tagEvs = {} THEN before.inside
       ELSE out[CHOOSE j \in tagEvs : \A i \in tagEvs : i <= j].type = "Open"

\* text carried over outside a wanted region has no part in what is emitted
CarryOverIsDropped ==
    (~before.inside /\ ~Contains(before.buf, "<"))
        => out = push([before EXCEPT !.buf = <<>>], chunkIn, CollectCb).out

\* C9: push emits Payload only for text after a wanted Open, before the next
\* wanted Close and outside ignored regions; text before the first wanted
\* open tag, after a wanted close tag, or carried over while outside a wanted
\* region is never emitted by a later push.
C9_PayloadOnlyInsideWanted ==
    /\ \A k \in DOMAIN out :
          out[k].type = "Bytes" => InsideAt(k) /\ ctx[k].inside /\ ctx[k].depth = 0
    /\ tagger.inside = InsideAt(Len(out) + 1)
    /\ CarryOverIsDropped

\* text was carried over outside; the push opens a region and emits its text
C9_CarryOverNotEmitted ==
    /\ ~before.inside
    /\ before.buf = <<"b">>
    /\ chunkIn = <<"<", "T", ">", "b">>
    /\ out = <<TagOpen(<<"T">>), TagBytes(<<"b">>)>>

(***************************************************************************)
(* Tag names                                                               *)
(***************************************************************************)

\* the complete tags of the text fed so far
FedTags == RefTags(FedText, 0)

\* the first tag of the text is completed by the last step
FirstTagArrived ==
    /\ FedTags # <<>>
    /\ pos - Len(chunkIn) < FedTags[1].last

\* an opening tag whose name is wanted, whatever its case, opens a region
\* under the name as written
FirstTagOpens ==
    (FirstTagArrived /\ ~FedTags[1].close /\ RefWanted(FedTags[1].name))
        => /\ out # <<>>
           /\ out[1] = TagOpen(FedTags[1].text)
           /\ capturing \/ done

C11_PushReturnsOk == ret.err = "none"

(***************************************************************************)
(* The parser's contract                                                   *)
(***************************************************************************)

\* the whole text has been given to one parse of a non-streaming parser
ParsedWhole == call = "parse" /\ chunkIn = input /\ ~inner.streaming

\* the value itself, or the array of the values in input order
RootsExpected ==
    IF Len(sample.values) = 1 THEN sample.values[1] ELSE JArray(sample.values)

NoCoalescing(values) ==
    \A k \in 2..Len(values) :
        values[k].t = "String" =>
            /\ ~IsCommaOnly(values[k].s)
            /\ ~(values[k - 1].t = "String" /\ EndsWith(values[k - 1].s, <<",">>))

Keywords == {<<"t", "r", "u", "e">>, <<"f", "a", "l", "s", "e">>, <<"n", "u", "l", "l">>}

\* the builder below an identifier in progress, if there is one
BelowIdent(b) == IF TopIs(b, "Ident") THEN [b EXCEPT !.stack = Pop(@)] ELSE b

\* the identifier that ends with tok: the chunks gathered before it and tok
WholeIdent(b, tok) == IF TopIs(b, "Ident") THEN Top(b.stack).buf \o tok ELSE tok

\* IdentEnd arrives while an object waits for its key
IdentEndsInKeyPosition ==
    /\ call' = "feed_event"
    /\ event'.e = "IdentEnd"
    /\ parent_wants_key(BelowIdent(inner.builder))

\* a parse call takes the text past the end of the first key
ParsePassesKey ==
    /\ call' = "parse"
    /\ pos < Find(input, ":")
    /\ Find(input, ":") <= pos'

\* C13: a bare identifier that is exactly true, false or null in key
\* position is rejected with InvalidKey, by feed_event and by parse, whether
\* the identifier arrives as one IdentEnd or as IdentChunk events followed
\* by IdentEnd.
C13_KeywordKeyRejected ==
    [][/\ (IdentEndsInKeyPosition /\ WholeIdent(inner.builder, event'.s) \in Keywords)
            => ret'.err = "InvalidKey"
       /\ (ParsePassesKey /\ input \in KeywordKeyTexts) => ret'.err = "InvalidKey"]_vars

\* the key true arrived as the chunk "tr" and the end "ue" and was rejected
C13_ChunkedKeywordRejected ==
    /\ call = "feed_event"
    /\ event = Event("IdentEnd", <<"u", "e">>)
    /\ input \in KeywordKeyTexts
    /\ TopIs(inner.builder, "Obj")
    /\ ret.err = "InvalidKey"

\* C14: every bare identifier other than exactly true, false and null is
\* accepted as an object key: with an object on top of the stack and no
\* pending key, IdentEnd makes the identifier the pending key and returns no
\* error.
C14_BareKeyAccepted ==
    [][(/\ IdentEndsInKeyPosition
        /\ TopIs(inner.builder, "Obj")
        /\ event'.s # <<>>
        /\ ~(event'.s \in Keywords))
            => /\ ret'.err = "none"
               /\ TopIs(inner'.builder, "Obj")
               /\ Top(inner'.builder.stack).last_key = Some(event'.s)]_vars

\* C15: finish(streaming = true) never returns an error: whatever the
\* builder holds, also a lone string, number or identifier cut at the end of
\* a chunk, it returns the current best value.
C15_StreamingFinishNeverFails == (call = "finish" /\ inner.streaming) => ret.err = "none"

\* how many of the objects and arrays opened in text are not closed in it
\* (no sample has a bracket inside a string)
OpenDepth(text) ==
    Cardinality({k \in DOMAIN text : text[k] \in {"[", "{"}})
        - Cardinality({k \in DOMAIN text : text[k] \in {"]", "}"}})

\* C16: non-streaming parse of an input that ends while an object or array
\* opened in it is still unclosed returns UnexpectedEof and no value.
C16_UnclosedIsUnexpectedEof ==
    (ParsedWhole /\ sample.kind = "text" /\ OpenDepth(input) > 0)
        => ret = ResultOf(Err("UnexpectedEof"))

\* the value found by following path (keys and 0-based indexes) from v
RECURSIVE FollowPath(_, _)
FollowPath(v, path) ==
    IF path = <<>> THEN SomeValue(v)
    ELSE IF Head(path).key
        THEN IF v.t = "Object" /\ Head(path).s \in DOMAIN v.m
             THEN FollowPath(v.m[Head(path).s], Tail(path))
             ELSE NoValue
    ELSE IF v.t = "Array" /\ Head(path).i < Len(v.v)
        THEN FollowPath(v.v[Head(path).i + 1], Tail(path))
    ELSE NoValue

\* a chunk of a scalar has just been fed and a Partial came back
ChunkSnapshot ==
    /\ call = "feed_event"
    /\ event.e \in {"StrChunk", "NumberChunk", "IdentChunk"}
    /\ snapshot.kind = "Partial"

\* C17: the path of every Partial emitted on a scalar chunk event, followed
\* from the root of the value under construction, leads to the scalar in
\* progress, whose content is a String.
C17_PathLeadsToScalar ==
    ChunkSnapshot =>
        /\ snapshot.value = JString(Top(inner.builder.stack).buf)
        /\ FollowPath(current_root_json_value_snapshot(inner.builder).val, snapshot.path)
               = SomeValue(snapshot.value)

\* the frames that stay on the stack while ev is fed: all but a container
\* that ev closes
Staying(stack, ev) ==
    {k \in 1..Len(stack) : ev.e \in {"EndObj", "EndArr"} => k < Len(stack)}

\* frame f as it is after the event keeps what it held before
KeepsChildren(f, after) ==
    CASE f.k = "Arr" -> after.k = "Arr" /\ Len(after.vec) >= Len(f.vec)
      [] f.k = "Obj" -> after.k = "Obj" /\ DOMAIN f.map \subseteq DOMAIN after.map
      [] OTHER -> TRUE

\* C18: no feed_event removes a committed child: while an array or object
\* frame is on the stack its element count resp. its key set never shrinks
\* (a duplicate key may only replace the value).
C18_ChildrenStay ==
    [][call' = "feed_event" =>
        \A k \in Staying(inner.builder.stack, event') :
            IsScalarFrame(inner.builder.stack[k])
                \/ /\ k <= Len(inner'.builder.stack)
                   /\ KeepsChildren(inner.builder.stack[k], inner'.builder.stack[k])]_vars

\* a string was glued onto the element before it and the array kept its one
\* element
C18_MergedInPlace ==
    /\ call = "feed_event"
    /\ event.e = "StrEnd"
    /\ inner.builder.stack = <<FArr(<<JString(<<"a", "b">>)>>)>>
    /\ snapshot = NoSnapshot

\* the event completes a value: it ends a scalar or closes a container
CompletesValue(ev) == ev.e \in {"StrEnd", "NumberEnd", "IdentEnd", "EndObj", "EndArr"}

\* where on the stack the parent of the value that ev completes sits
ParentAt(b, ev) ==
    IF ev.e \in {"EndObj", "EndArr"} \/ (b.stack # <<>> /\ IsScalarFrame(Top(b.stack)))
    THEN Len(b.stack) - 1
    ELSE Len(b.stack)

\* the scalar that ends with tok: what its frame has gathered and tok
WholeScalar(b, tok) ==
    IF b.stack # <<>> /\ IsScalarFrame(Top(b.stack)) THEN Top(b.stack).buf \o tok ELSE tok

\* the value that ev completes
CompletedValue(b, ev) ==
    CASE ev.e = "StrEnd" -> JString(unescape(WholeScalar(b, ev.s)).s)
      [] ev.e = "NumberEnd" -> parse_number(WholeScalar(b, ev.s)).val
      [] ev.e = "IdentEnd" ->
            IF parse_ident(WholeScalar(b, ev.s)).some
            THEN parse_ident(WholeScalar(b, ev.s)).val
            ELSE JString(WholeScalar(b, ev.s))
      [] OTHER -> finish_container(b).val

\* the parent is an object whose pending key it already holds
KeyHeld(f) == f.k = "Obj" /\ f.last_key.some /\ f.last_key.s \in DOMAIN f.map

\* ev completes a value for a key that its object already holds
CompletesHeldKey(b, ev) ==
    /\ CompletesValue(ev)
    /\ ParentAt(b, ev) >= 1
    /\ KeyHeld(b.stack[ParentAt(b, ev)])

\* the object f with the value of its pending key replaced by val
Replaced(f, val) == FObj([f.map EXCEPT ![f.last_key.s] = val], None)

\* C20: a value that completes for a key the object already holds replaces
\* the old value, no error is returned, and the object has the same keys as
\* before, one entry for each.
C20_DuplicateKeyReplaces ==
    [][(call' = "feed_event" /\ CompletesHeldKey(inner.builder, event')) =>
            /\ ret'.err = "none"
            /\ Len(inner'.builder.stack) = ParentAt(inner.builder, event')
            /\ Top(inner'.builder.stack)
                   = Replaced(inner.builder.stack[ParentAt(inner.builder, event')],
                              CompletedValue(inner.builder, event'))]_vars

\* the second value of the key a has taken the place of the first
C20_SecondValueWins ==
    /\ call = "feed_event"
    /\ event = Event("NumberEnd", <<"2">>)
    /\ inner.builder.stack = <<FObj(MapInsert(EmptyMap, <<"a">>, JInteger(2)), None)>>
    /\ ret.err = "none"

\* part is a snapshot of whole under construction: the elements and members
\* completed so far as they are in whole, the last one possibly in progress;
\* a scalar in progress appears as a String, and so does the empty value of
\* a key that has none yet
RECURSIVE IsSnapshotOf(_, _)
IsSnapshotOf(part, whole) ==
    \/ part = whole
    \/ part.t = "String" /\ (~IsContainerValue(whole) \/ part.s = <<>>)
    \/ /\ whole.t = "Array"
       /\ part.t = "Array"
       /\ Len(part.v) <= Len(whole.v)
       /\ \A k \in 1..Len(part.v) :
              IF k < Len(part.v) THEN part.v[k] = whole.v[k]
              ELSE IsSnapshotOf(part.v[k], whole.v[k])
    \/ /\ whole.t = "Object"
       /\ part.t = "Object"
       /\ DOMAIN part.m \subseteq DOMAIN whole.m
       /\ \A key \in DOMAIN part.m : IsSnapshotOf(part.m[key], whole.m[key])

\* step has returned a value and the stream is not done
ValueBeforeDone == sample \in PlainSamples /\ ret.err = "none" /\ ret.some /\ ~done

\* C19: every value step returns before the stream is done is the snapshot
\* of the whole root under construction; for a root array it is an array of
\* the elements completed so far (and the one in progress), also when exactly
\* one element has completed.
C19_StepReturnsRootSnapshot == ValueBeforeDone => IsSnapshotOf(ret.val, sample.value)

(***************************************************************************)
(* The builder's stack and path                                            *)
(***************************************************************************)

\* where on the stack the String/Number/Ident frames sit
ScalarFrames(stack) == {k \in DOMAIN stack : IsScalarFrame(stack[k])}

ItemBelow(parent) ==
    IF parent.k = "Arr" THEN <<PathIndex(Len(parent.vec))>>
    ELSE IF parent.k = "Obj" /\ parent.last_key.some THEN <<PathKey(parent.last_key.s)>>
    ELSE <<>>

\* the items pushed for the values still in progress: one for each frame
\* above the root frame
ItemsInProgress(stack) ==
    Flatten([k \in 1..(Len(stack) - 1) |-> ItemBelow(stack[k])])

\* C22: after every feed_event that returns without error the builder's
\* path holds exactly the items pushed for the values still in progress:
\* each scalar completion and each container close removes the item pushed
\* when that value started, also when a completed string is merged into the
\* previous array element or dropped.
C22_PathMatchesStack ==
    (call = "feed_event" /\ ret.err = "none")
        => inner.builder.path = ItemsInProgress(inner.builder.stack)

(***************************************************************************)
(* Keys and values of objects                                              *)
(***************************************************************************)

\* the event starts a value or continues one
StartsValue(ev) ==
    ev.e \in {"StartObj", "StartArr", "StrChunk", "NumberChunk", "IdentChunk"}

\* the frame is an object with a pending key
KeyPending(f) == f.k = "Obj" /\ f.last_key.some

\* ev completes a value whose parent is an object with a pending key
CompletesForKey(b, ev) ==
    /\ CompletesValue(ev)
    /\ ParentAt(b, ev) >= 1
    /\ KeyPending(b.stack[ParentAt(b, ev)])

\* the object f with val stored under its pending key and the key cleared
Stored(f, val) ==
    FObj([x \in DOMAIN f.map \cup {f.last_key.s} |->
              IF x = f.last_key.s THEN val ELSE f.map[x]], None)

\* C23: with an object on top and a pending key k, the next value that
\* completes (a scalar end or a container close) is stored under k and the
\* pending key is cleared; the pending key stays while the value merely
\* starts.
C23_PendingKeyTakesValue ==
    [][(call' = "feed_event" /\ ret'.err = "none") =>
        /\ CompletesForKey(inner.builder, event') =>
              /\ Len(inner'.builder.stack) = ParentAt(inner.builder, event')
              /\ Top(inner'.builder.stack)
                     = Stored(inner.builder.stack[ParentAt(inner.builder, event')],
                              CompletedValue(inner.builder, event'))
        /\ (StartsValue(event') /\ TopIs(inner.builder, "Obj")
                /\ KeyPending(Top(inner.builder.stack))) =>
              /\ Len(inner'.builder.stack) = Len(inner.builder.stack) + 1
              /\ inner'.builder.stack[Len(inner.builder.stack)] = Top(inner.builder.stack)]_vars

\* an object that was started under the key a has been closed and stored
C23_NestedObjectStored ==
    /\ call = "feed_event"
    /\ event.e = "EndObj"
    /\ inner.builder.stack
           = <<FObj(MapInsert(EmptyMap, <<"a">>,
                              JObject(MapInsert(EmptyMap, <<"b">>, JString(<<"c", "d">>)))),
                    None)>>

\* a StrEnd, or an IdentEnd that is not one of the three literals, arrives
\* while the object on top of the stack waits for its key
KeyEndsOnObject ==
    /\ call' = "feed_event"
    /\ parent_wants_key(inner.builder)
    /\ \/ event'.e = "StrEnd"
       \/ event'.e = "IdentEnd" /\ ~(event'.s \in Keywords)

\* C24: with an object on top and no pending key, a StrEnd or a non-keyword
\* IdentEnd makes the finished text the pending key, leaves the object's
\* completed entries and the rest of the stack unchanged and returns no
\* snapshot.
C24_KeyInstalled ==
    [][KeyEndsOnObject =>
        /\ ret'.err = "none"
        /\ snapshot' = NoSnapshot
        /\ inner'.builder.stack
               = Append(Pop(inner.builder.stack),
                        FObj(Top(inner.builder.stack).map, Some(event'.s)))]_vars

(***************************************************************************)
(* Tokens in one piece and in chunks                                       *)
(***************************************************************************)

\* the event ends a scalar
EndsScalar(ev) == ev.e \in {"StrEnd", "NumberEnd", "IdentEnd"}

\* the path without the item of the scalar frame on top
PathBelowScalar(b) ==
    SubSeq(b.path, 1,
           Len(b.path) - (IF Len(b.stack) > 1
                          THEN Len(ItemBelow(b.stack[Len(b.stack) - 1])) ELSE 0))

\* the builder as it was before the chunks of the scalar on top arrived
BelowScalar(b) ==
    IF b.stack # <<>> /\ IsScalarFrame(Top(b.stack))
    THEN [b EXCEPT !.stack = Pop(@), !.path = PathBelowScalar(b)]
    ELSE b

\* one End event with the whole text leaves what the chunks and their End
\* have left: the same error, or the same keys and values on the stack
SameOutcome(whole, stack, err) ==
    /\ whole.err = err
    /\ err = "none" => whole.b.stack = stack

\* C25: what the builder makes of a string, key, number or identifier
\* depends on the token's full text only: Chunk events followed by End
\* leave the same key or value as one End event that carries the whole
\* text, escapes decoded and whitespace normalised alike.
C25_SplitDoesNotMatter ==
    [][(call' = "feed_event" /\ EndsScalar(event')) =>
        SameOutcome(feed_event(BelowScalar(inner.builder),
                               Event(event'.e, WholeScalar(inner.builder, event'.s))),
                    inner'.builder.stack, ret'.err)]_vars

(***************************************************************************)
(* What the snapshots show of keys                                         *)
(***************************************************************************)

\* the innermost object has its key and no value has started for it
KeyAwaitsValue(b) ==
    /\ TopIs(b, "Obj")
    /\ Top(b.stack).last_key.some
    /\ ~(Top(b.stack).last_key.s \in DOMAIN Top(b.stack).map)

\* the stack with the pending key of its top frame left out
WithoutPendingKey(stack) == Append(Pop(stack), FObj(Top(stack).map, None))

\* step has returned a value for the region it is capturing
ValueWhileCapturing ==
    sample \in PlainSamples /\ ret.err = "none" /\ ret.some /\ ~done /\ capturing

\* C26: a key that has been fully parsed but whose value has not started
\* does not appear in the value step returns: only complete key-value pairs
\* and a value in progress are shown, at every nesting depth of the object.
C26_PendingKeyNotShown ==
    (ValueWhileCapturing /\ KeyAwaitsValue(inner.builder))
        => ret.val = Unwrap1(build_snapshot_from_stack_recursive(
                                 WithoutPendingKey(inner.builder.stack), 1))

\* a streaming parse has returned with a quoted key partly received: a string
\* frame lies on an object that has no pending key
KeyInChunks ==
    /\ call = "parse" /\ inner.streaming /\ ret.err = "none"
    /\ Len(inner.builder.stack) >= 2
    /\ Top(inner.builder.stack).k = "Str"
    /\ Top(Pop(inner.builder.stack)).k = "Obj"
    /\ ~Top(Pop(inner.builder.stack)).last_key.some

\* the part of the value v that stands for frame `last' of the stack
RECURSIVE ShownFor(_, _, _, _)
ShownFor(v, stack, k, last) ==
    IF k = last THEN v
    ELSE IF stack[k].k = "Arr" THEN ShownFor(v.v[Len(v.v)], stack, k + 1, last)
    ELSE ShownFor(v.m[stack[k].last_key.s], stack, k + 1, last)

\* obj holds the entries of map and the partial key bound to ""
ShowsPartialKey(obj, map, part) ==
    /\ obj.t = "Object"
    /\ DOMAIN obj.m = DOMAIN map \cup {part}
    /\ obj.m[part] = JString(<<>>)
    /\ \A k \in DOMAIN map : obj.m[k] = map[k]

\* C27: while a quoted key is being received in chunks, the snapshot of the
\* enclosing object shows the part of the key received so far bound to the
\* empty string, next to the object's completed entries.
C27_PartialKeyShown ==
    KeyInChunks =>
        ShowsPartialKey(ShownFor(ret.val, inner.builder.stack, 1,
                                 Len(inner.builder.stack) - 1),
                        Top(Pop(inner.builder.stack)).map,
                        Top(inner.builder.stack).buf)

(***************************************************************************)
(* Strings that complete inside arrays                                     *)
(***************************************************************************)

\* the next feed_event completes a string whose parent is the array `depth'
\* frames up from the bottom of the stack
StringEndsInArray(depth) ==
    /\ call' = "feed_event" /\ event'.e = "StrEnd" /\ ret'.err = "none"
    /\ Len(BelowScalar(inner.builder).stack) = depth
    /\ Top(BelowScalar(inner.builder).stack).k = "Arr"

\* `after' is the stack with val as a new last element of the array on top
AppendedTo(stack, val, after) ==
    after = Append(Pop(stack), FArr(Append(Top(stack).vec, val)))

\* C28: a string that completes inside a nested (non-root) array is appended
\* as a new element with its text unchanged; merging into a previous element
\* that ends in a comma, and dropping of comma-only strings, apply to the
\* root-level array only.
C28_InnerArrayKeepsStrings ==
    [][(\E depth \in 2..MaxDepth + 1 : StringEndsInArray(depth))
          => AppendedTo(BelowScalar(inner.builder).stack,
                        CompletedValue(inner.builder, event'),
                        inner'.builder.stack)]_vars

\* the last element of vec is a string ending in ',' or in ', '
LastEndsInComma(vec) ==
    /\ vec # <<>>
    /\ vec[Len(vec)].t = "String"
    /\ LET s == vec[Len(vec)].s IN
       /\ s # <<>>
       /\ \/ s[Len(s)] = ","
          \/ (Len(s) >= 2 /\ s[Len(s) - 1] = "," /\ s[Len(s)] = " ")

\* s without the commas and spaces at its end
WithoutTrailingCommas(s) ==
    SubSeq(s, 1, CHOOSE n \in 0..Len(s) :
                     /\ n = 0 \/ ~(s[n] \in {",", " "})
                     /\ \A k \in (n + 1)..Len(s) : s[k] \in {",", " "})

\* `after' is the stack whose only frame is the array vec with the text
\* glued onto its last element
GluedOnto(vec, text, after) ==
    /\ Len(after) = 1
    /\ after[1].k = "Arr"
    /\ Len(after[1].vec) = Len(vec)
    /\ after[1].vec[Len(vec)] = JString(WithoutTrailingCommas(vec[Len(vec)].s) \o text)
    /\ \A k \in 1..(Len(vec) - 1) : after[1].vec[k] = vec[k]

\* C29 as stated: when a completed string is appended to the root-level
\* array whose last element is a string ending in ',' or ', ', the trailing
\* commas and spaces of that element are stripped and the new string is
\* concatenated to it; the array length does not change and the other
\* elements are untouched.
C29_GluedOntoLast ==
    [][(StringEndsInArray(1) /\ LastEndsInComma(Top(BelowScalar(inner.builder).stack).vec))
          => GluedOnto(Top(BelowScalar(inner.builder).stack).vec,
                       CompletedValue(inner.builder, event').s,
                       inner'.builder.stack)]_vars

\* C29 amended: the same of every completed string that does not trim to
\* nothing but commas; such a string is dropped and the last element keeps
\* its trailing comma.
C29_KeptStringGluedOntoLast ==
    [][(/\ StringEndsInArray(1)
        /\ LastEndsInComma(Top(BelowScalar(inner.builder).stack).vec)
        /\ ~IsCommaOnly(CompletedValue(inner.builder, event').s))
          => GluedOnto(Top(BelowScalar(inner.builder).stack).vec,
                       CompletedValue(inner.builder, event').s,
                       inner'.builder.stack)]_vars

\* "b" has been glued onto "a, " behind the first element of a root array
C29_GluedBehindNumber ==
    /\ call = "feed_event" /\ event.e = "StrEnd"
    /\ inner.builder.stack = <<FArr(<<JInteger(1), JString(<<"a", "b">>)>>)>>

(***************************************************************************)
(* Numbers that start with the decimal point                               *)
(***************************************************************************)

\* the text starts with '.' or with '-.'
PointFirst(raw) ==
    \/ (Len(raw) >= 1 /\ raw[1] = ".")
    \/ (Len(raw) >= 2 /\ raw[1] = "-" /\ raw[2] = ".")

\* the text with a 0 put before its point
ZeroBeforePoint(raw) ==
    IF raw[1] = "." THEN <<"0">> \o raw ELSE <<"-", "0">> \o Tail(raw)

\* C30: a number whose text starts with '.' or with '-.' is parsed as if a 0
\* stood before the point: '.5' gives 0.5 and '-.7' gives -0.7, and neither
\* yields InvalidNumber.
C30_PointFirstNumber ==
    [][(/\ call' = "feed_event" /\ event'.e = "NumberEnd"
        /\ PointFirst(WholeScalar(inner.builder, event'.s)))
          => /\ ret'.err # "InvalidNumber"
             /\ SameOutcome(feed_event(BelowScalar(inner.builder),
                                       Event("NumberEnd",
                                             ZeroBeforePoint(WholeScalar(inner.builder,
                                                                         event'.s)))),
                            inner'.builder.stack, ret'.err)]_vars

(***************************************************************************)
(* Bare identifiers as values                                              *)
(***************************************************************************)

\* txt is a non-empty prefix of word
IsPrefixOf(txt, word) ==
    txt # <<>> /\ Len(txt) <= Len(word) /\ SubSeq(word, 1, Len(txt)) = txt

\* s with every run of whitespace made one space
RECURSIVE CollapseRuns(_)
CollapseRuns(s) ==
    IF s = <<>> THEN <<>>
    ELSE IF ~IsWhitespace(Head(s)) THEN <<Head(s)>> \o CollapseRuns(Tail(s))
    ELSE IF Len(s) > 1 /\ IsWhitespace(s[2]) THEN CollapseRuns(Tail(s))
    ELSE <<" ">> \o CollapseRuns(Tail(s))

\* the value the identifier txt stands for
IdentMeans(txt) ==
    IF IsPrefixOf(txt, <<"t", "r", "u", "e">>) THEN JBoolean(TRUE)
    ELSE IF IsPrefixOf(txt, <<"f", "a", "l", "s", "e">>) THEN JBoolean(FALSE)
    ELSE IF IsPrefixOf(txt, <<"n", "u", "l", "l">>) THEN JNull
    ELSE JString(CollapseRuns(txt))

\* the builder can take a value: at the root, in an array, or in an object
\* that holds a pending key
TakesValue(b) ==
    \/ b.stack = <<>>
    \/ TopIs(b, "Arr")
    \/ (TopIs(b, "Obj") /\ Top(b.stack).last_key.some)

\* the next feed_event ends an identifier in value position
IdentEndsAsValue ==
    /\ call' = "feed_event"
    /\ event'.e = "IdentEnd"
    /\ TakesValue(BelowIdent(inner.builder))
    /\ ~ScalarMidStack(BelowIdent(inner.builder).stack)

\* C31: a bare identifier completed in value position becomes true, false
\* or null when its text is a non-empty prefix of 'true', 'false' or 'null'
\* (case-sensitive); any other identifier becomes a String with runs of
\* whitespace collapsed to single spaces.
C31_IdentifierValue ==
    [][IdentEndsAsValue =>
          /\ ret'.err = "none"
          /\ inner'.builder.stack =
                PlaceValue(BelowIdent(inner.builder),
                           IdentMeans(WholeIdent(inner.builder, event'.s))).b.stack]_vars

(***************************************************************************)
(* Ignored regions                                                         *)
(***************************************************************************)

\* the last push opened an ignored region with the tag of this name, and the
\* next push brings the close tag of that name
OpenedThenClosed(opener, closer) ==
    /\ before.ignored_depth = 0
    /\ chunkIn \in TagThenText(OpenText(opener))
    /\ tagger.ignored_depth = 1
    /\ chunkIn' \in TagThenText(CloseText(closer))

\* C32: an ignored region opened by ignored tag A is ended only by the close
\* tag that matches it: a close tag of a different ignored name B does not
\* end the suppression of A's content.
C32_OnlyMatchingCloseEnds ==
    [][\A a, b \in IgnoredNames :
          (a # b /\ OpenedThenClosed(a, b)) => (tagger'.inside_ignored /\ out' = <<>>)]_vars

(***************************************************************************)
(* Values that meet an object without a key                                *)
(***************************************************************************)

\* the builder below a number in progress, if there is one
BelowNumber(b) == IF TopIs(b, "Num") THEN [b EXCEPT !.stack = Pop(@)] ELSE b

\* the builder below the container on top, if there is one
BelowContainer(b) ==
    IF TopIs(b, "Obj") \/ TopIs(b, "Arr") THEN [b EXCEPT !.stack = Pop(@)] ELSE b

\* the next feed_event completes a number or closes a container, and the
\* frame that is to take the value is an object without a pending key
CompletesUnderKeyless(under) ==
    /\ call' = "feed_event"
    /\ parent_wants_key(under)
    /\ \/ event'.e = "NumberEnd" /\ under = BelowNumber(inner.builder)
       \/ /\ event'.e \in {"EndObj", "EndArr"}
          /\ Len(inner.builder.stack) >= 2
          /\ under = BelowContainer(inner.builder)

\* C33: when a number or a closed container completes while the top frame is
\* an Object with no pending key, feed_event returns InvalidKey and that
\* object's completed entries are unchanged.
C33_KeylessObjectRefuses ==
    [][\A under \in {BelowNumber(inner.builder), BelowContainer(inner.builder)} :
          CompletesUnderKeyless(under) =>
              /\ ret'.err = "InvalidKey"
              /\ Top(inner'.builder.stack) = Top(under.stack)]_vars

\* a second number has met the object {b: 2}
C33_NumberAfterEntry ==
    /\ call = "feed_event" /\ event.e = "NumberEnd" /\ ret.err = "InvalidKey"
    /\ inner.builder.stack =
          <<FObj([k \in {<<"b">>} |-> JInteger(2)], None)>>

(***************************************************************************)
(* What finish returns                                                     *)
(***************************************************************************)

\* a finished string, or the error of its escapes
StringBuilt(u) == IF u.err # "none" THEN Err(u.err) ELSE Ok(JString(u.s))

\* the value a frame has built
FrameBuilt(f) ==
    CASE f.k = "Arr" -> IF Len(f.vec) = 1 THEN Ok(f.vec[1]) ELSE Ok(JArray(f.vec))
      [] f.k = "Obj" -> Ok(JObject(f.map))
      [] f.k = "Str" -> StringBuilt(unescape(f.buf))
      [] f.k = "Num" -> parse_number(f.buf)
      [] f.k = "Ident" -> Ok(IdentMeans(f.buf))

\* the last call returned r
Returned(r) == ret.err = r.err /\ (r.err = "none" => ret.val = r.val)

\* C34: finish on an empty stack returns Null; finish(streaming = false) on
\* a stack of depth 1 returns the remaining frame's built value, where an
\* array frame holding exactly one element returns that element and any
\* other array frame returns the array.
C34_FinishReturnsBuiltValue ==
    call = "finish" =>
        /\ inner.builder.stack = <<>> => Returned(Ok(JNull))
        /\ (~inner.streaming /\ Len(inner.builder.stack) = 1)
              => Returned(FrameBuilt(inner.builder.stack[1]))

(***************************************************************************)
(* A region starts with a fresh parser                                     *)
(***************************************************************************)

\* the place of the last Open among the events, 0 if there is none
LastOpen(evs) ==
    IF \E k \in DOMAIN evs : evs[k].type = "Open"
    THEN CHOOSE k \in DOMAIN evs :
             evs[k].type = "Open" /\ \A j \in (k + 1)..Len(evs) : evs[j].type # "Open"
    ELSE 0

\* the closure of step after it was handed the events
RECURSIVE AfterEvents(_, _)
AfterEvents(cb, evs) ==
    IF evs = <<>> THEN cb ELSE AfterEvents(Callback(cb, Head(evs)).cb, Tail(evs))

\* a stream that has parsed nothing and returned nothing
FreshStream == StreamCb(TRUE, ParserNew(TRUE), FALSE, spWanted, NoValue)

\* step has returned what the closure holds as latest
ReturnsLatest(latest) == ret.some = latest.some /\ (latest.some => ret.val = latest.val)

\* C35: each Open of a wanted tag replaces the inner parser with a fresh
\* one: whatever was parsed from payload before that Open (an unfinished
\* earlier region, or the enclosing region when a wanted tag is nested)
\* never appears in a value returned after it; the step that met the Open
\* returns what the events after the Open give on a fresh stream.
C35_OpenStartsAfresh ==
    (ret.err = "none" /\ LastOpen(out) > 0)
        => ReturnsLatest(AfterEvents(FreshStream,
                                     SubSeq(out, LastOpen(out) + 1, Len(out))).latest)

(***************************************************************************)
(* Snapshots with streaming disabled                                       *)
(***************************************************************************)

\* the last feed_event was given a value-completing event and succeeded
ValueCompleted == call = "feed_event" /\ ret.err = "none" /\ CompletesValue(event)

\* C36: after any value-completing event the builder stack is non-empty,
\* because a root value is wrapped in the implicit array frame; hence with
\* streaming disabled feed_event never returns a Partial, a Complete
\* snapshot is produced only when the stack empties at the root, and the
\* result is otherwise obtained from finish.
C36_StackKeepsRoot ==
    /\ ValueCompleted => inner.builder.stack # <<>>
    /\ ~inner.builder.streaming => snapshot.kind # "Partial"
    /\ snapshot.kind = "Complete" => inner.builder.stack = <<>>
    /\ (ValueCompleted /\ ~inner.builder.streaming) => snapshot = NoSnapshot

\* a number has completed at the root with streaming disabled
C36_RootNumberWrapped ==
    /\ ValueCompleted /\ ~inner.builder.streaming
    /\ event.e = "NumberEnd"
    /\ inner.builder.stack = <<FArr(<<JInteger(2)>>)>>


(***************************************************************************)
(* The carry-over buffer                                                   *)
(***************************************************************************)

\* a '<' waits in the buffer for its '>'
LtPending(tf) == Find(tf.buf, "<") # 0

LongTagPending ==
    ret.err = "none" /\ Len(tagger.buf) > TailKeep /\ tagger.buf[1] = "<"

\* the region's payload was emitted and nothing is left behind
EmptyInsideRegion ==
    ret.err = "none" /\ tagger.inside /\ chunkIn # <<>> /\ tagger.buf = <<>>

(***************************************************************************)
(* The depth of ignored tags                                               *)
(***************************************************************************)

\* C38: after every push inside_ignored is true exactly when ignored_depth
\* is above zero, and ignored_depth is never below zero, whatever sequence
\* of opening and closing ignored tags was pushed, unmatched closes included
C38_DepthTracksIgnored ==
    /\ tagger.ignored_depth >= 0
    /\ tagger.inside_ignored = (tagger.ignored_depth > 0)

\* the close of an ignored tag arrived with no ignored tag open
C38_UnmatchedIgnoredClose ==
    /\ ret.err = "none"
    /\ before.ignored_depth = 0
    /\ \E name \in IgnoredNames : StartsWith(chunkIn, CloseText(name))
    /\ tagger.ignored_depth = 0
    /\ ~tagger.inside_ignored

\* an ignored tag was opened inside another and one of them was closed
IgnoredCloseLeavesOneOpen ==
    /\ ret.err = "none"
    /\ before.ignored_depth = 2
    /\ tagger.ignored_depth = 1
    /\ tagger.inside_ignored

(***************************************************************************)
(* A container end with nothing to end                                     *)
(***************************************************************************)

\* the event just given was an EndObj or an EndArr
EndGiven == call = "feed_event" /\ event.e \in {"EndObj", "EndArr"}

\* C39: feed_event never aborts: an EndObj or EndArr that arrives with no
\* open container on the stack, or with a container of the other kind on
\* top, gives an error value or a defined builder state, not a panic
C39_EndNeverAborts == EndGiven => ret.err # "panic"

(***************************************************************************)
(* The loop of push                                                        *)
(***************************************************************************)

\* how many times c occurs in s
CountOf(s, c) == Cardinality({k \in DOMAIN s : s[k] = c})

\* every turn that went on took at least one '>' out of the buffer
LoopWithin(st, closers) ==
    /\ st.iterations <= closers
    /\ st.iterations + CountOf(st.tf.buf, ">") <= closers

\* C40: every push terminates: a turn of its loop returns, breaks or takes
\* a complete tag out of the buffer, so the turns that go on are at most as
\* many as the '>' characters in the buffer
C40_LoopBounded ==
    LoopWithin(push(before, chunkIn, CollectCb), CountOf(before.buf \o chunkIn, ">"))

TurnsTaken(st, n) == st.err = "none" /\ st.iterations = n

\* a push whose loop consumed two tags and then broke
C40_TwoTagsConsumed == TurnsTaken(push(before, chunkIn, CollectCb), 2)

\* a push whose loop returned at an unterminated '<' behind a consumed tag
ReturnsBehindTag ==
    /\ TurnsTaken(push(before, chunkIn, CollectCb), 1)
    /\ LtPending(tagger)

=========================================================================
